---- MODULE Spec2Model ----
(***************************************************************************)
(* Model of tsg_insights/data/process.py: the data-preparation pipeline    *)
(* (get_dataframe, DataPreparation.run) and its stage classes.             *)
(*                                                                         *)
(* Five specifications share the module:                                   *)
(*   SpecRun     - get_dataframe / DataPreparation.run on worker processes;*)
(*   SpecColumns - CheckColumnNames and CheckColumnsExist on a dataset;    *)
(*   SpecClean   - CheckColumnTypes, AddExtraColumns and                   *)
(*                 CleanRecipientIdentifiers applied to a dataset;         *)
(*   Spec        - the lookup and merge stage classes instantiated         *)
(*                 directly as Stage(df, cache, job).run(), the caller     *)
(*                 handing each returned (df, cache) pair to the next      *)
(*                 stage in list order over successive datasets that       *)
(*                 share one cache;                                        *)
(*   SpecBands   - AddExtraFieldsExternal on a dataset.                    *)
(***************************************************************************)
EXTENDS Integers, Sequences, FiniteSets, TLC

\* ------------------------------------------------------------------ values

\* Python's None for scalar values (strings, numbers).
NULL == "None"

\* An optional structured value: <<>> is None, <<x>> is x.
None == <<>>
Some(x) == <<x>>

\* A dict with no keys.
EmptyMap == [x \in {} |-> x]

\* d[k] = v on a dict.
Put(d, k, v) == [x \in (DOMAIN d) \cup {k} |-> IF x = k THEN v ELSE d[x]]

HasKey(d, k) == k \in DOMAIN d

\* ------------------------------------------------------------------ bounds

\* Worker processes that may execute get_dataframe at the same time.
NumWorkers == 2

\* Cap on the number of geocode-table fetches that are counted.
MaxGeoFetches == 3

\* Rows of a dataset handed to the identifier stages.
MaxRows == 2

\* Times CleanRecipientIdentifiers is applied to one dataset.
MaxCleanRuns == 3

\* Rows of a dataset handed to the lookup and merge stages.
MaxGrants == 2

\* Datasets prepared one after the other against the same cache.
MaxDatasets == 2

\* Rows of a dataset handed to AddExtraFieldsExternal.
MaxBandRows == 1

\* ------------------------------------------------------------------ stages

LoadDataset == "Load data to be prepared"
CheckColumnNames == "Check column names"
CheckColumnsExist == "Check columns exist"
CheckColumnTypes == "Check column types"
AddExtraColumns == "Add extra columns"
CleanRecipientIdentifiers == "Clean recipient identifiers"
LookupCharityDetails == "Look up charity data"
LookupCompanyDetails == "Look up company data"
MergeCompanyAndCharityDetails == "Add charity and company details to data"
FetchPostcodes == "Look up postcode data"
MergeGeoData == "Add geo data"
AddExtraFieldsExternal == "Add extra fields from external data"

\* DataPreparation.__init__: self.stages.
stages ==
    << LoadDataset, CheckColumnNames, CheckColumnsExist, CheckColumnTypes,
       AddExtraColumns, CleanRecipientIdentifiers, LookupCharityDetails,
       LookupCompanyDetails, MergeCompanyAndCharityDetails, FetchPostcodes,
       MergeGeoData, AddExtraFieldsExternal >>

\* The classes that derive (directly or through CheckColumnNames) from
\* DataPreparationStage and so inherit __init__(df, cache, job, **kwargs).
\* LoadDataset is declared `class LoadDataset():` and is not among them.
DataPreparationStageSubclasses ==
    { CheckColumnNames, CheckColumnsExist, CheckColumnTypes, AddExtraColumns,
      CleanRecipientIdentifiers, LookupCharityDetails, LookupCompanyDetails,
      MergeCompanyAndCharityDetails, FetchPostcodes, MergeGeoData,
      AddExtraFieldsExternal }

\* Stage(df, self.cache, self.job, **self.attributes): a class without the
\* inherited __init__ takes no arguments and the call raises TypeError.
CanConstruct(Stage) == Stage \in DataPreparationStageSubclasses

\* ------------------------------------------------------- the lookup cache

\* fetch_geocodes(): the name table, keyed "<type>-<code>".
GeocodeTable ==
    <<"ctry", "E92000001">> :> "England" @@
    <<"rgn", "E12000007">> :> "London" @@
    <<"rgn", "W99999999">> :> "(pseudo) Wales"

\* prepare_lookup_cache: the dict built when the store holds no blob.
NewLookupCache ==
    [charity |-> EmptyMap, company |-> EmptyMap, postcode |-> EmptyMap,
     geocodes |-> EmptyMap]

\* prepare_lookup_cache: `"geocodes" not in cache or len(cache["geocodes"]) == 0`.
NeedsGeocodes(cache) == DOMAIN cache.geocodes = {}

\* prepare_lookup_cache, given the blob read from the store.
prepare_lookup_cache(blob) ==
    LET cache == IF blob = None THEN NewLookupCache ELSE blob[1]
    IN  IF NeedsGeocodes(cache)
        THEN [cache EXCEPT !.geocodes = GeocodeTable]
        ELSE cache

\* The value `self.cache[ns]`: the namespace dict itself, seen as a JSON
\* object.  It is keyed by identifiers, so it has none of the response fields,
\* and it is not empty when it is returned (it holds the key just found).
NamespaceDict(ns) == ("<dict>" :> ns)

\* A namespace of the cache holds itself as the value of one of its keys.
ContainsItself(cache) ==
    \E ns \in { "charity", "company", "postcode" } \cap DOMAIN cache :
        \E k \in DOMAIN cache[ns] : cache[ns][k] = NamespaceDict(ns)

\* save_lookup_cache: r.set("lookup_cache", json.dumps(cache)).  json.dumps
\* raises ValueError (circular reference) on a dict that contains itself,
\* and nothing is written then; otherwise the blob is written.
save_lookup_cache(cache) ==
    IF ContainsItself(cache)
    THEN [raises |-> "ValueError", written |-> None]
    ELSE [raises |-> NULL, written |-> Some(cache)]

\* ------------------------------------------------------ get_dataframe input

FileNames == { NULL, "grants.csv", "grants.txt" }
FileContents == { NULL, "minimal-csv" }

\* filename.endswith(suffix) on the file names of the model.
EndsWith(filename, suffix) ==
    <<filename, suffix>> \in { <<"grants.csv", "csv">> }

\* ThreeSixtyGiving.from_csv(io.BytesIO(contents)).to_pandas() on the
\* contents of the model: "minimal-csv" is the five required columns and one
\* row, Recipient Org:0:Identifier = GB-CHC-123456, Amount Awarded = 750.
ParsedDataset(contents) ==
    [cols |-> { "Amount Awarded", "Funding Org:0:Name", "Award Date",
                "Recipient Org:0:Name", "Recipient Org:0:Identifier" },
     rows |-> << [id |-> <<"GB", "CHC", "123456">>, amount |-> 750] >>]

\* LoadDataset.run.
LoadDatasetRun(df, cache, attributes) ==
    IF attributes.contents = NULL \/ attributes.filename = NULL
    THEN [df |-> df, cache |-> cache]
    ELSE IF \/ EndsWith(attributes.filename, "csv")
            \/ EndsWith(attributes.filename, "xls")
            \/ EndsWith(attributes.filename, "xlsx")
            \/ EndsWith(attributes.filename, "json")
         THEN [df |-> Some(ParsedDataset(attributes.contents)), cache |-> cache]
         ELSE [df |-> df, cache |-> cache]

\* ------------------------------------------------------------- job progress

\* DataPreparation._setup_job_meta: the meta written when a job is present.
SetupJobMeta ==
    [stages |-> stages, progress |-> [stage |-> 0, progress |-> NULL]]

\* The positional arguments DataPreparation.run passes to
\* self._progress_job at the end of each loop iteration (line 113: none).
RunProgressArgs(k) == <<>>

\* DataPreparation._progress_job(stage_id, progress=None) is callable only
\* with stage_id bound; the binding is checked before the body runs, so the
\* call fails with or without a job.
ProgressJobCallable(args) == Len(args) >= 1


\* ------------------------------------------------------------------ dataset

\* A dataset is [cols, rows]: the set of column names present and the rows.
\* A row carries every column of the model; a column that is absent, or a
\* NaN cell, is a null: NULL for a string cell, NoId for an identifier cell.
\* An identifier (and a scheme) is the sequence of its '-'-delimited
\* segments, x.split("-"): "GB-CHC-1" is <<"GB", "CHC", "1">>.
NoId == <<>>

COL_IDENTIFIER == "Recipient Org:0:Identifier"
COL_SCHEME == "Recipient Org:0:Identifier:Scheme"
COL_CLEAN == "Recipient Org:0:Identifier:Clean"
COL_COMPANY == "Recipient Org:0:Company Number"
COL_CHARITY == "Recipient Org:0:Charity Number"
COL_POSTCODE == "Recipient Org:0:Postal Code"
COL_YEAR == "Award Date:Year"

\* CheckColumnNames.columns_to_check.
columns_to_check ==
    { "Amount Awarded", "Funding Org:0:Name", "Award Date",
      "Recipient Org:0:Name", COL_IDENTIFIER }

\* schemes with data on findthatcharity
FTC_SCHEMES ==
    { <<"GB", "CHC">>, <<"GB", "NIC">>, <<"GB", "SC">>, <<"GB", "COH">> }

\* x.startswith("360G-"): the first segment is "360G" and a '-' follows it.
StartsWith360G(x) == Len(x) >= 2 /\ x[1] = "360G"

\* "-".join(x.split("-")[:2])
FirstTwoSegments(x) == SubSeq(x, 1, IF Len(x) < 2 THEN Len(x) ELSE 2)

SchemeOfFirstTwoOnly(x) == FirstTwoSegments(x)

\* The lambda of AddExtraColumns.run and CleanRecipientIdentifiers.run:
\* "360G" if x.startswith("360G-") else "-".join(x.split("-")[:2])
SchemeOf(x) == IF StartsWith360G(x) THEN <<"360G">> ELSE FirstTwoSegments(x)

\* "GB-COH-{}".format(company_number)
CompanyOrgId(number) == <<"GB", "COH", number>>

\* utils.charity_number_to_org_id: the organisation identifier synthesized
\* from a charity number; a NaN cell gives no identifier.
charity_number_to_org_id(number) ==
    IF number = NULL THEN NoId ELSE <<"GB", "CHC", number>>

\* AddExtraColumns.run
AddExtraColumnsRun(df) ==
    LET F(r) == [r EXCEPT !.year = r.date.year, !.scheme = SchemeOf(r.id)]
    IN  [df EXCEPT !.rows = [i \in DOMAIN df.rows |-> F(df.rows[i])],
                   !.cols = @ \cup { COL_YEAR, COL_SCHEME }]

\* CleanRecipientIdentifiers.run lines 224-230: rows whose scheme is an FTC
\* scheme take the original identifier; the other rows keep their cell (NaN
\* when the column is created by this assignment).
CleanDefaultRow(r) ==
    IF r.scheme \in FTC_SCHEMES THEN [r EXCEPT !.clean = r.id] ELSE r

CleanDefault(df) ==
    [df EXCEPT !.rows = [i \in DOMAIN df.rows |-> CleanDefaultRow(df.rows[i])],
                   !.cols = @ \cup { COL_CLEAN }]

\* lines 233-239: on the rows whose company number is not null, the clean
\* identifier is fillna'ed with "GB-COH-<company number>".
CleanCompanyRowOverwrites(r) ==
    IF r.company # NULL
    THEN [r EXCEPT !.clean = CompanyOrgId(r.company)]
    ELSE r

CleanCompanyRow(r) ==
    IF r.company # NULL /\ r.clean = NoId
    THEN [r EXCEPT !.clean = CompanyOrgId(r.company)]
    ELSE r

CleanCompany(df) ==
    IF COL_COMPANY \in df.cols THEN [df EXCEPT !.rows = [i \in DOMAIN df.rows |-> CleanCompanyRow(df.rows[i])]] ELSE df

\* lines 242-245: the clean identifier is fillna'ed with the charity org id.
CleanCharityRow(r) ==
    IF r.clean = NoId
    THEN [r EXCEPT !.clean = charity_number_to_org_id(r.charity)]
    ELSE r

CleanCharity(df) ==
    IF COL_CHARITY \in df.cols THEN [df EXCEPT !.rows = [i \in DOMAIN df.rows |-> CleanCharityRow(df.rows[i])]] ELSE df

\* lines 249-252: the scheme is recomputed from a string clean identifier and
\* falls back to the current scheme.
CleanSchemeRow(r) ==
    IF r.clean # NoId THEN [r EXCEPT !.scheme = SchemeOf(r.clean)] ELSE r

CleanScheme(df) == [df EXCEPT !.rows = [i \in DOMAIN df.rows |-> CleanSchemeRow(df.rows[i])]]

\* CleanRecipientIdentifiers.run
CleanRecipientIdentifiersRun(df) ==
    CleanScheme(CleanCharity(CleanCompany(CleanDefault(df))))

\* --------------------------------------------------- datasets of the model

\* Award Date after CheckColumnTypes: the timestamp 2019-04-01.
AwardDate == [year |-> 2019, month |-> 4, day |-> 1]

Identifiers ==
    { <<"GB", "CHC", "1">>, <<"GB", "COH", "7">>, <<"360G", "x">>,
      <<"XI", "LEI", "9">>, <<"plain">>, <<"360G">> }
CompanyNumbers == { "8" }
CharityNumbers == { "2" }

\* A row as CheckColumnTypes leaves it.
TypedRow(id, company, charity, postal) ==
    [id |-> id, company |-> company, charity |-> charity, postal |-> postal,
     date |-> AwardDate, year |-> 0, scheme |-> NoId, clean |-> NoId]

\* Award Date cells as they are loaded: strings.
AwardDateStrings == { "2019-04-01", "04/01/2019", "not a date" }

\* pd.to_datetime on one Award Date string of the model: the ISO form and the
\* month-first form (dayfirst is not set) are parsed, anything else is not.
ToDatetime(x) ==
    IF x \in { "2019-04-01", "04/01/2019" } THEN Some(AwardDate) ELSE None

\* A row as CheckColumnsExist leaves it: the Award Date cell is a string.
LoadedRow(id, company, charity, postal, date) ==
    [TypedRow(id, company, charity, postal) EXCEPT !.date = date]

\* Rows whose Award Date is the ISO string.
LoadedRows(hasCompany, hasCharity) ==
    { LoadedRow(id, company, charity, NULL, "2019-04-01") :
        id \in Identifiers,
        company \in (IF hasCompany THEN CompanyNumbers \cup { NULL } ELSE { NULL }),
        charity \in (IF hasCharity THEN CharityNumbers \cup { NULL } ELSE { NULL }) }

SeqsUpTo(S, n) == UNION { [1 .. m -> S] : m \in 1 .. n }

\* The dataset d with the Award Date of row i written as the string x.
WithAwardDate(d, i, x) == [d EXCEPT !.rows[i].date = x]

\* Datasets with the required columns and every Award Date an ISO string.
IsoDatedDatasets ==
    UNION { { [cols |-> columns_to_check
                          \cup (IF hasCompany THEN { COL_COMPANY } ELSE {})
                          \cup (IF hasCharity THEN { COL_CHARITY } ELSE {}),
               rows |-> rows] :
              rows \in SeqsUpTo(LoadedRows(hasCompany, hasCharity), MaxRows) } :
            hasCompany \in BOOLEAN, hasCharity \in BOOLEAN }

\* CheckColumnTypes.run: the Award Date column is replaced by
\* pd.to_datetime(self.df["Award Date"]), which raises ValueError on a string
\* it cannot parse, before anything is assigned.
CheckColumnTypesRun(df) ==
    IF \E i \in DOMAIN df.rows : ToDatetime(df.rows[i].date) = None
    THEN [raises |-> "ValueError", df |-> df]
    ELSE [raises |-> NULL,
          df |-> [df EXCEPT !.rows =
                    [i \in DOMAIN df.rows |->
                        [df.rows[i] EXCEPT !.date = ToDatetime(df.rows[i].date)[1]]]]]


\* -------------------------------------------------------- external services

\* "-".join(segments)
RECURSIVE JoinDash(_)
JoinDash(x) ==
    IF Len(x) = 0 THEN ""
    ELSE IF Len(x) = 1 THEN x[1]
    ELSE x[1] \o "-" \o JoinDash(Tail(x))

\* A JSON object is a function from its (flattened) field names to strings;
\* {} is the function with no fields.
Get(c, f) == IF f \in DOMAIN c THEN c[f] ELSE NULL

\* bool(x) of a dict, and of a string or None.
TruthyDict(c) == DOMAIN c # {}
TruthyStr(x) == x # NULL /\ x # ""

\* dict.get(k) followed by a truth test, as in `if self.cache[ns].get(k):`.
GetIsTruthy(d, k) == HasKey(d, k) /\ TruthyDict(d[k])

\* Responses of the charity registry (findthatcharity) for an identifier.
CharityRecord(orgid) ==
    ( "id" :> JoinDash(orgid) @@ "date_registered" :> "2010-01-01" @@
      "latest_income" :> "50000" @@ "geo.postcode" :> "P2" )
NotFoundRecord == ("error" :> "not found")
EmptyRecord == EmptyMap

\* Responses of the company registry (Companies House).
CompanyRecord(orgid) ==
    ( "primaryTopic.CompanyNumber" :> orgid[Len(orgid)] @@
      "primaryTopic.IncorporationDate" :> "01/01/2010" @@
      "primaryTopic.CompanyCategory" :>
          "PRI/LTD BY GUAR/NSC (Private, limited by guarantee, no share capital)" @@
      "primaryTopic.RegAddress.Postcode" :> "P3" )

\* Responses of the postcode service.
PostcodeRecord(pc) ==
    IF pc = "P2"
    THEN ( "data.attributes.ctry" :> "W92000004" @@
           "data.attributes.rgn" :> "W99999999" @@
           "data.attributes.cty" :> "W99999999" )
    ELSE ( "data.attributes.ctry" :> "E92000001" @@
           "data.attributes.rgn" :> "E12000007" )

\* What requests.get(url).json() does: return the decoded body, raise
\* json.JSONDecodeError on a malformed body, or fail in transport.
Returned(body) == [raises |-> NULL, body |-> body]
Malformed == [raises |-> "JSONDecodeError", body |-> EmptyMap]
TransportFailure == [raises |-> "ConnectionError", body |-> EmptyMap]

CharityOutcomes(orgid) ==
    { Returned(CharityRecord(orgid)), Returned(NotFoundRecord),
      Returned(EmptyRecord), Malformed, TransportFailure }
CompanyOutcomes(orgid) ==
    { Returned(CompanyRecord(orgid)), Malformed, TransportFailure }
PostcodeOutcomes(pc) ==
    { Returned(PostcodeRecord(pc)), Malformed, TransportFailure }

\* json.JSONDecodeError is a subclass of ValueError; ConnectionError is not.
IsValueError(exc) == exc \in { "ValueError", "JSONDecodeError" }
IsJSONDecodeError(exc) == exc = "JSONDecodeError"

\* ------------------------------------------------------------ lookup stages

\* pandas: Series.unique(), in order of first appearance.
RECURSIVE Unique(_)
Unique(q) ==
    IF q = <<>> THEN <<>>
    ELSE LET rest == Unique(SubSeq(q, 1, Len(q) - 1))
             x == q[Len(q)]
         IN  IF \E i \in 1 .. Len(rest) : rest[i] = x THEN rest ELSE Append(rest, x)

\* The cells of one column of the given rows, in row order.
CleanCells(rows) == [i \in DOMAIN rows |-> rows[i].clean]
PostalCells(rows) == [i \in DOMAIN rows |-> rows[i].postal]

\* LookupCharityDetails.run lines 268-271.
CharityOrgids(df) ==
    LET Keep(r) == r.scheme \in FTC_SCHEMES /\ r.clean # NoId
    IN  Unique(CleanCells(SelectSeq(df.rows, Keep)))

\* LookupCompanyDetails._get_orgid_index
\* find records where the ID has already been found in charity lookup
GetOrgidIndex(cache) == DOMAIN cache.charity

\* LookupCompanyDetails.run lines 297-301.
CompanyOrgids(df, cache) ==
    LET Keep(r) == r.clean \notin GetOrgidIndex(cache) /\ r.scheme = <<"GB", "COH">>
    IN  Unique(CleanCells(SelectSeq(df.rows, Keep)))

\* FetchPostcodes.run lines 403-406: the postal-code column is fillna'ed with
\* (or, when absent, set to) __org_postcode.
FillPostcodeRow(hasColumn, r) ==
    IF hasColumn /\ r.postal # NULL THEN r ELSE [r EXCEPT !.postal = r.org.postcode]

\* A column created from __org_postcode has that column's dtype, object; a
\* column that was loaded and fillna'ed keeps the dtype it was loaded with.
FillPostcodes(df) ==
    LET F(r) == FillPostcodeRow(COL_POSTCODE \in df.cols, r)
    IN  [df EXCEPT !.rows = [i \in DOMAIN df.rows |-> F(df.rows[i])],
                   !.cols = @ \cup { COL_POSTCODE },
                   !.object_cols = IF COL_POSTCODE \in df.cols THEN @
                                   ELSE @ \cup { COL_POSTCODE }]

\* FetchPostcodes.run line 409.
Postcodes(df) ==
    LET Keep(r) == r.postal # NULL
    IN  Unique(PostalCells(SelectSeq(df.rows, Keep)))

\* The characters of the segment seg end with "GB".
EndsWithGB(seg) ==
    Len(seg) >= 2 /\ SubSeq(seg, Len(seg) - 1, Len(seg)) = "GB"

\* orgid.replace("GB-COH-", ""), on the segments of orgid.  str.replace works
\* on characters and removes every occurrence, left to right: "GB-COH-"
\* occurs wherever a segment ends with the characters GB, the next segment is
\* COH and another segment follows.  Removing it joins what came before GB in
\* the first segment to the segment after COH: XGB-COH-7 becomes X7.
RECURSIVE ReplaceCompanyPrefix(_)
ReplaceCompanyPrefix(x) ==
    IF Len(x) <= 1 THEN x
    ELSE IF Len(x) >= 3 /\ EndsWithGB(x[1]) /\ x[2] = "COH"
    THEN LET rest == ReplaceCompanyPrefix(SubSeq(x, 3, Len(x)))
         IN  << SubSeq(x[1], 1, Len(x[1]) - 2) \o rest[1] >> \o Tail(rest)
    ELSE << x[1] >> \o ReplaceCompanyPrefix(Tail(x))

\* The value formatted into the service URL for a key:
\* ftc_url.format(orgid), ch_url.format(orgid.replace("GB-COH-", "")),
\* pc_url.format(pc).
RequestFor(ns, key) == IF ns = "company" THEN ReplaceCompanyPrefix(key) ELSE key

\* _get_charity / _get_company / _get_postcode on the namespace dict d:
\* a key whose cached value is truthy returns the namespace dict and makes no
\* request; otherwise the request is made and its outcome returned or raised.
GetFromCacheOrFetch(ns, d, key, outcome) ==
    IF GetIsTruthy(d, key)
    THEN [fetched |-> FALSE, raises |-> NULL, value |-> NamespaceDict(ns)]
    ELSE [fetched |-> TRUE, raises |-> outcome.raises, value |-> outcome.body]

SwallowsEverything(ns, exc) == TRUE

SwallowsNoPostcodeError(ns, exc) ==
    IF ns = "postcode" THEN FALSE ELSE IsValueError(exc)

\* The except clause around the assignment in each stage's loop:
\* `except ValueError: pass` (charity, company),
\* `except json.JSONDecodeError: continue` (postcode).
Swallows(ns, exc) ==
    IF ns = "postcode" THEN IsJSONDecodeError(exc) ELSE IsValueError(exc)

LookupItemKeepsTruthyOnly(ns, d, key, outcome) ==
    LET got == GetFromCacheOrFetch(ns, d, key, outcome)
    IN  IF got.raises = NULL
        THEN [dict |-> IF TruthyDict(got.value) THEN Put(d, key, got.value) ELSE d,
              escapes |-> NULL, fetched |-> got.fetched]
        ELSE [dict |-> d,
              escapes |-> IF Swallows(ns, got.raises) THEN NULL ELSE got.raises,
              fetched |-> got.fetched]

\* One iteration of a lookup loop after its progress report:
\* try: self.cache[ns][key] = self._get_x(key) / except ...: pass.
\* Gives the namespace dict afterwards and the exception that escapes.
LookupItem(ns, d, key, outcome) ==
    LET got == GetFromCacheOrFetch(ns, d, key, outcome)
    IN  IF got.raises = NULL
        THEN [dict |-> Put(d, key, got.value), escapes |-> NULL, fetched |-> got.fetched]
        ELSE [dict |-> d,
              escapes |-> IF Swallows(ns, got.raises) THEN NULL ELSE got.raises,
              fetched |-> got.fetched]

\* ------------------------------------------- MergeCompanyAndCharityDetails

COL_ORG == "__org_postcode"
COL_ORG_INCOME == "__org_latest_income"
COL_ORG_AGE == "__org_age"

\* The columns of the organisation table after rename(columns "__org_" + x):
\* the seven of _create_orgid_df / _create_company_df and the age of line 382.
ORG_COLUMNS ==
    { "__org_charity_number", "__org_company_number", "__org_date_registered",
      "__org_date_removed", COL_ORG, COL_ORG_INCOME, "__org_org_type",
      COL_ORG_AGE }

\* The __org_ cells of a row that matched nothing (and of a row before the join).
NoOrg ==
    [charity_number |-> NULL, company_number |-> NULL, date_registered |-> NULL,
     date_removed |-> NULL, postcode |-> NULL, latest_income |-> None,
     org_type |-> NULL, age |-> None]

\* COMPANY_REPLACE.get(category, category)
CompanyReplace(category) ==
    IF category \in
        { "PRI/LBG/NSC (Private, Limited by guarantee, no share capital, use of 'Limited' exemption)",
          "PRI/LTD BY GUAR/NSC (Private, limited by guarantee, no share capital)" }
    THEN "Company Limited by Guarantee"
    ELSE IF category = "PRIV LTD SECT. 30 (Private limited company, section 30 of the Companies Act)"
    THEN "Private Limited Company"
    ELSE category

\* The day on which the clock is read, as a day number (days since
\* 1970-01-01): 2019-04-01.
Today == 17987

\* Instants and time differences are whole hours.
HoursPerDay == 24

\* pd.datetime.now(): the instants of the day at which the clock may be
\* read, in hours since 1970-01-01T00:00 (midnight and midday of Today).
Clock == { Today * HoursPerDay + h : h \in { 0, 12 } }

\* pd.to_datetime on the date strings of the model, as a day number.
ToDayNumber(d) ==
    IF d \in { "2010-01-01", "01/01/2010" } THEN Some(14610)
    ELSE IF d = "2018-03-31" THEN Some(17621)
    ELSE IF d = "2018-04-01" THEN Some(17622)
    ELSE IF d = "2018-04-02" THEN Some(17623)
    ELSE None

\* astype(float) on the income strings of the model.
ToFloat(x) == IF x = "50000" THEN Some(50000) ELSE None

\* now - orgid_df["date_registered"], in hours; a date is the midnight that
\* begins its day, and the age of a null date is null (NaT).
AgeOf(d, now) ==
    IF ToDayNumber(d) = None THEN None
    ELSE Some(now - ToDayNumber(d)[1] * HoursPerDay)

\* Lines 382-383 on one row of the organisation table, now being the value
\* pd.datetime.now() returned.
WithAge(org, now) == [age |-> AgeOf(org.date_registered, now)] @@ org

\* _create_orgid_df: one row per charity cache entry that has an 'id'.
OrgidRows(cache) ==
    { [orgid |-> k,
       org |-> [charity_number |-> Get(cache.charity[k], "id"),
                company_number |-> Get(cache.charity[k], "company_number.0.number"),
                date_registered |-> Get(cache.charity[k], "date_registered"),
                date_removed |-> Get(cache.charity[k], "date_removed"),
                postcode |-> Get(cache.charity[k], "geo.postcode"),
                latest_income |-> ToFloat(Get(cache.charity[k], "latest_income")),
                org_type |-> "Registered Charity"]] :
      k \in { k \in DOMAIN cache.charity : TruthyStr(Get(cache.charity[k], "id")) } }

\* _create_company_df: one row per company cache entry.
CompanyRows(cache) ==
    { [orgid |-> k,
       org |-> [charity_number |-> NULL,
                company_number |-> Get(cache.company[k], "primaryTopic.CompanyNumber"),
                date_registered |-> Get(cache.company[k], "primaryTopic.IncorporationDate"),
                date_removed |-> Get(cache.company[k], "primaryTopic.DissolutionDate"),
                postcode |-> Get(cache.company[k], "primaryTopic.RegAddress.Postcode"),
                latest_income |-> None,
                org_type |-> CompanyReplace(Get(cache.company[k], "primaryTopic.CompanyCategory"))]] :
      k \in DOMAIN cache.company }

\* Python's ~ on a bool (bitwise not of 1 or 0), and the truth of an int.
BitwiseNot(b) == IF b THEN -2 ELSE -1
TruthyInt(n) == n # 0

\* The rows of df.join(table, on=clean identifier, how="left") for one row:
\* one output row per matching table row (charity rows precede company rows
\* in the concatenated table), or the row with null cells when none matches.
JoinRow(r, charityRows, companyRows, now) ==
    LET fromCharity == IF \E t \in charityRows : t.orgid = r.clean
                       THEN << [r EXCEPT !.org =
                                  WithAge((CHOOSE t \in charityRows : t.orgid = r.clean).org,
                                          now)] >>
                       ELSE <<>>
        fromCompany == IF \E t \in companyRows : t.orgid = r.clean
                       THEN << [r EXCEPT !.org =
                                  WithAge((CHOOSE t \in companyRows : t.orgid = r.clean).org,
                                          now)] >>
                       ELSE <<>>
    IN  IF fromCharity \o fromCompany = <<>>
        THEN << [r EXCEPT !.org = NoOrg] >>
        ELSE fromCharity \o fromCompany

RECURSIVE JoinRows(_, _, _, _)
JoinRows(rows, charityRows, companyRows, now) ==
    IF rows = <<>> THEN <<>>
    ELSE JoinRow(Head(rows), charityRows, companyRows, now)
            \o JoinRows(Tail(rows), charityRows, companyRows, now)

\* The joined dataset: its columns and the eight __org_ columns.
JoinOrgTable(df, charityRows, companyRows, now) ==
    [df EXCEPT !.cols = @ \cup ORG_COLUMNS,
               !.rows = JoinRows(df.rows, charityRows, companyRows, now)]

\* df.join(orgid_df, on=clean identifier, how="left").  A clean-identifier
\* column with no string in it is a float64 column of NaN; joining it on the
\* table's string index is refused with ValueError by the pandas releases
\* that check merge-key dtypes (strictKeys) and matches nothing in the others.
JoinOnClean(df, charityRows, companyRows, strictKeys, now) ==
    IF strictKeys /\ \A i \in 1 .. Len(df.rows) : df.rows[i].clean = NoId
    THEN [raises |-> "ValueError", df |-> df]
    ELSE [raises |-> NULL, df |-> JoinOrgTable(df, charityRows, companyRows, now)]

\* MergeCompanyAndCharityDetails.run.  _create_orgid_df raises KeyError when
\* no charity entry has an id (set_index("orgid") on a frame with no columns);
\* orgid_df is then always a DataFrame, so the third branch tests
\* ~isinstance(orgid_df, pd.DataFrame) = ~True.
MergeRun(df, cache, strictKeys, now) ==
    IF OrgidRows(cache) = {}
    THEN [raises |-> "KeyError", df |-> df]
    ELSE IF TruthyDict(cache.company)
    THEN JoinOnClean(df, OrgidRows(cache), CompanyRows(cache), strictKeys, now)
    ELSE IF TruthyInt(BitwiseNot(TRUE))
    THEN [raises |-> NULL, df |-> df]
    ELSE JoinOnClean(df, OrgidRows(cache), {}, strictKeys, now)

\* ------------------------------------------------------------ MergeGeoData

\* fields to care about from the postcodes
POSTCODE_FIELDS ==
    { "ctry", "cty", "laua", "pcon", "rgn", "imd", "ru11ind", "oac11", "lat",
      "long" }

\* The columns of the postcode table after rename(columns "__geo_" + x).
GEO_COLUMNS == { "__geo_" \o f : f \in POSTCODE_FIELDS }

\* The __geo_ cells of a row that matched nothing (and of a row before the join).
NoGeo == [f \in POSTCODE_FIELDS |-> NULL]

\* self.cache["geocodes"].get("-".join([c, str(x)]), x): the name of code x
\* of field c, or x itself when the table has no such key.
GeoName(cache, c, x) ==
    IF << c, x >> \in DOMAIN cache.geocodes THEN cache.geocodes[<< c, x >>] ELSE x

\* str.replace(r"\(pseudo\)", "") on a cell, for the strings of the model;
\* a null cell stays null.
ReplacePseudo(x) == IF x = "(pseudo) Wales" THEN " Wales" ELSE x

\* fillna("").str.endswith("99999999") on a cell, for the strings of the model.
EndsWithSentinel(x) == x = "W99999999"

\* One cell of _create_postcode_df: the attribute of the cached entry, its
\* name swapped in, "(pseudo)" removed, and a value that ends in 99999999
\* set to None.
GeoCell(cache, c, entry) ==
    LET named == ReplacePseudo(GeoName(cache, c, Get(entry, "data.attributes." \o c)))
    IN  IF EndsWithSentinel(named) THEN NULL ELSE named

\* _create_postcode_df: one row per postcode cache entry.
PostcodeRows(cache) ==
    { [postcode |-> k,
       geo |-> [c \in POSTCODE_FIELDS |-> GeoCell(cache, c, cache.postcode[k])]] :
      k \in DOMAIN cache.postcode }

\* The row of df.join(postcode_df, on=postal code, how="left") for one row.
JoinGeoRow(r, postcodeRows) ==
    IF \E t \in postcodeRows : t.postcode = r.postal
    THEN [r EXCEPT !.geo = (CHOOSE t \in postcodeRows : t.postcode = r.postal).geo]
    ELSE [r EXCEPT !.geo = NoGeo]

\* MergeGeoData.run.  _create_postcode_df raises KeyError when the postcode
\* namespace is empty (set_index("postcode") on a frame with no columns).  A
\* loaded postal-code column with no string in it can be a float64 column of
\* NaN, which the pandas releases that check merge-key dtypes (strictKeys)
\* refuse to join on the table's string index; the others match nothing, as
\* does every release on a column of dtype object.
MergeGeoDataRun(df, cache, strictKeys) ==
    IF PostcodeRows(cache) = {}
    THEN [raises |-> "KeyError", df |-> df]
    ELSE IF COL_POSTCODE \notin df.cols
    THEN [raises |-> "KeyError", df |-> df]
    ELSE IF /\ strictKeys
            /\ COL_POSTCODE \notin df.object_cols
            /\ \A i \in 1 .. Len(df.rows) : df.rows[i].postal = NULL
    THEN [raises |-> "ValueError", df |-> df]
    ELSE [raises |-> NULL,
          df |-> [df EXCEPT !.cols = @ \cup GEO_COLUMNS,
                            !.rows = [i \in DOMAIN df.rows |->
                                        JoinGeoRow(df.rows[i], PostcodeRows(cache))]]]

\* ------------------------------------ datasets handed to the lookup stages

GrantIdentifiers ==
    { <<"GB", "CHC", "1">>, <<"GB", "COH", "7">>, <<"GB", "COH", "XGB", "COH", "7">>,
      <<"360G", "x">> }
GrantPostcodes == { "P1" }

\* A row as CleanRecipientIdentifiers leaves it, with no __org_ cells yet.
GrantRow(id, postal) ==
    LET typed == [cols |-> columns_to_check, rows |-> << TypedRow(id, NULL, NULL, postal) >>]
        r == CleanRecipientIdentifiersRun(AddExtraColumnsRun(typed)).rows[1]
    IN  [id |-> r.id, company |-> r.company, charity |-> r.charity,
         postal |-> r.postal, date |-> r.date, year |-> r.year,
         scheme |-> r.scheme, clean |-> r.clean, org |-> NoOrg, geo |-> NoGeo]

\* Datasets as CleanRecipientIdentifiers returns them.  object_cols names the
\* columns known to have dtype object because a stage assigned them from an
\* object column; the dtype of a loaded column depends on its cells.
GrantDatasets ==
    UNION { { [cols |-> columns_to_check \cup { COL_YEAR, COL_SCHEME, COL_CLEAN }
                          \cup (IF hasPostal THEN { COL_POSTCODE } ELSE {}),
               object_cols |-> {},
               rows |-> rows] :
              rows \in SeqsUpTo(
                  { GrantRow(id, postal) :
                      id \in GrantIdentifiers,
                      postal \in (IF hasPostal THEN GrantPostcodes \cup { NULL } ELSE { NULL }) },
                  MaxGrants) } :
            hasPostal \in BOOLEAN }

VARIABLES
    \* --- SpecRun: get_dataframe on each worker
    lookup_cache,   \* the blob stored under "lookup_cache" (None or a cache)
    gd_pc,          \* worker -> position in get_dataframe / run
    gd_in,          \* worker -> [via, df, filename, contents, job] of the call
    gd_cache,       \* worker -> the cache the call holds
    gd_df,          \* worker -> the dataset the run loop holds
    gd_meta,        \* worker -> job.meta as last persisted by save_meta
    gd_ran,         \* worker -> names of the stages whose run() returned
    gd_err,         \* worker -> exception that ended the call, or NULL
    gd_out,         \* worker -> dataset returned by get_dataframe
    geo_fetches,    \* number of fetch_geocodes calls made so far
    \* --- SpecClean: the identifier stages on one dataset
    cl_raw,         \* the dataset as CheckColumnsExist returned it
    cl_hist,        \* the dataset as typed, after AddExtraColumns, and after
                    \* each run of CleanRecipientIdentifiers, in that order
    cl_err,         \* the exception CheckColumnTypes raised, or NULL
    \* --- Spec: the lookup and merge stages on successive datasets
    df,             \* the dataset the caller holds
    cache,          \* the lookup cache dict, shared by every stage and dataset
    job,            \* whether the stages are given a job handle
    progress,       \* job.meta['progress']['progress'] as last persisted
    stage,          \* the stage that runs next, or is running
    phase,          \* "ready", "loop", "fetch", "raised" or "done"
    err,            \* the exception that escaped the stage, or NULL
    sel,            \* namespace -> the keys its stage selected for this dataset
    done,           \* namespace -> loop iterations completed for this dataset
    bad,            \* <<namespace, key>> whose fetch was malformed, this dataset
    refetched,      \* <<namespace, key>> requested while a key of the namespace
    last,           \* the outcome of the latest loop iteration
    df0,            \* the dataset the latest stage was constructed with
    cache0,         \* the cache as it was when this dataset was taken up
    dataset_no,     \* datasets taken up so far
    \* --- SpecColumns: the column stages on one dataset
    ck_hist,        \* the (dataset, cache) pair as loaded, after CheckColumnNames
                    \* and after CheckColumnsExist, in that order
    ck_err,         \* the exception CheckColumnsExist raised, or None
    \* --- SpecBands: AddExtraFieldsExternal on one dataset
    bd_hist,        \* the dataset as MergeGeoData returned it, then as
                    \* AddExtraFieldsExternal returned it
    bd_err          \* the exception AddExtraFieldsExternal raised, or NULL

runVars ==
    << lookup_cache, gd_pc, gd_in, gd_cache, gd_df, gd_meta, gd_ran, gd_err,
       gd_out, geo_fetches >>

cleanVars == << cl_raw, cl_hist, cl_err >>

stageVars ==
    << df, cache, job, progress, stage, phase, err, sel, done, bad, refetched,
       last, df0, cache0, dataset_no >>

columnVars == << ck_hist, ck_err >>

bandVars == << bd_hist, bd_err >>

vars == << runVars, cleanVars, stageVars, columnVars, bandVars >>

Workers == 1 .. NumWorkers

\* The exceptions a stage's own transformation raises (validation errors,
\* failed fetches, missing columns); TypeError from calling a class or a
\* method with the wrong arguments is not one of them.
StageErrors == { "ValueError", "KeyError", "ConnectionError" }

\* ---------------------------------------------------------------- SpecRun

CleanIdle == cl_raw = None /\ cl_hist = <<>> /\ cl_err = NULL

ColumnsIdle == ck_hist = <<>> /\ ck_err = None

BandsIdle == bd_hist = <<>> /\ bd_err = NULL

Namespaces == { "charity", "company", "postcode" }

NoFetch ==
    [ns |-> NULL, key |-> NoId, query |-> NoId, raises |-> NULL, fetched |-> FALSE]

StagesIdle ==
    /\ df = [cols |-> {}, rows |-> <<>>]
    /\ cache = NewLookupCache
    /\ job = FALSE
    /\ progress = None
    /\ stage = NULL
    /\ phase = "done"
    /\ err = NULL
    /\ sel = [ns \in Namespaces |-> <<>>]
    /\ done = [ns \in Namespaces |-> 0]
    /\ bad = {}
    /\ refetched = {}
    /\ last = NoFetch
    /\ df0 = [cols |-> {}, rows |-> <<>>]
    /\ cache0 = NewLookupCache
    /\ dataset_no = 0

RunIdle ==
    /\ lookup_cache = None
    /\ gd_pc = [w \in Workers |-> "idle"]
    /\ gd_in = [w \in Workers |->
                  [via |-> NULL, df |-> None, filename |-> NULL, contents |-> NULL,
                   job |-> FALSE]]
    /\ gd_cache = [w \in Workers |-> None]
    /\ gd_df = [w \in Workers |-> None]
    /\ gd_meta = [w \in Workers |-> None]
    /\ gd_ran = [w \in Workers |-> <<>>]
    /\ gd_err = [w \in Workers |-> NULL]
    /\ gd_out = [w \in Workers |-> None]
    /\ geo_fetches = 0

RunInit == RunIdle /\ CleanIdle /\ StagesIdle /\ ColumnsIdle /\ BandsIdle

\* get_dataframe lines 26-28: df = None; cache = prepare_lookup_cache();
\* job = get_current_job().
GetDataframe(w) ==
    /\ UNCHANGED << cleanVars, stageVars, columnVars, bandVars >>
    /\ gd_pc[w] = "idle"
    /\ \E filename \in FileNames, contents \in FileContents, hasJob \in BOOLEAN :
          gd_in' = [gd_in EXCEPT ![w] =
                      [via |-> "get_dataframe", df |-> None, filename |-> filename,
                       contents |-> contents, job |-> hasJob]]
    /\ LET blob == lookup_cache
           fetches == IF blob = None \/ NeedsGeocodes(blob[1]) THEN 1 ELSE 0
       IN  /\ geo_fetches + fetches <= MaxGeoFetches
           /\ geo_fetches' = geo_fetches + fetches
           /\ gd_cache' = [gd_cache EXCEPT ![w] = Some(prepare_lookup_cache(blob))]
    /\ gd_df' = [gd_df EXCEPT ![w] = None]
    /\ gd_meta' = [gd_meta EXCEPT ![w] = None]
    /\ gd_ran' = [gd_ran EXCEPT ![w] = <<>>]
    /\ gd_err' = [gd_err EXCEPT ![w] = NULL]
    /\ gd_out' = [gd_out EXCEPT ![w] = None]
    /\ gd_pc' = [gd_pc EXCEPT ![w] = "prepared"]
    /\ UNCHANGED lookup_cache

\* Datasets a caller has already loaded.
LoadedDatasets == { Some(ParsedDataset("minimal-csv")) }

\* DataPreparation.__init__: `self.cache = cache if cache else {}`.
InitialCache(given) == IF given = None THEN EmptyMap ELSE given[1]

\* DataPreparation(df, cache, job, filename=..., contents=...) constructed by
\* a caller that holds an already-loaded dataset, to call run() on it.
NewDataPreparation(w) ==
    /\ UNCHANGED << cleanVars, stageVars, columnVars, bandVars >>
    /\ gd_pc[w] = "idle"
    /\ \E loaded \in LoadedDatasets, filename \in FileNames,
          contents \in FileContents, hasJob \in BOOLEAN :
          gd_in' = [gd_in EXCEPT ![w] =
                      [via |-> "DataPreparation", df |-> loaded,
                       filename |-> filename, contents |-> contents,
                       job |-> hasJob]]
    /\ \E given \in { None, Some(NewLookupCache) } :
          gd_cache' = [gd_cache EXCEPT ![w] = Some(InitialCache(given))]
    /\ gd_df' = [gd_df EXCEPT ![w] = None]
    /\ gd_meta' = [gd_meta EXCEPT ![w] = None]
    /\ gd_ran' = [gd_ran EXCEPT ![w] = <<>>]
    /\ gd_err' = [gd_err EXCEPT ![w] = NULL]
    /\ gd_out' = [gd_out EXCEPT ![w] = None]
    /\ gd_pc' = [gd_pc EXCEPT ![w] = "prepared"]
    /\ UNCHANGED << lookup_cache, geo_fetches >>

\* get_dataframe line 30 and run() lines 108-109: DataPreparation(df, cache,
\* job, ...), then the local df = None of run() and self._setup_job_meta().
RunSetup(w) ==
    /\ UNCHANGED << cleanVars, stageVars, columnVars, bandVars >>
    /\ gd_pc[w] = "prepared"
    /\ gd_df' = [gd_df EXCEPT ![w] = None]
    /\ gd_meta' = [gd_meta EXCEPT ![w] =
                     IF gd_in[w].job THEN Some(SetupJobMeta) ELSE gd_meta[w]]
    /\ gd_pc' = [gd_pc EXCEPT ![w] = "loop"]
    /\ UNCHANGED << lookup_cache, gd_in, gd_cache, gd_ran, gd_err, gd_out, geo_fetches >>

\* run() lines 110-113, first iteration (k = 0, Stage = LoadDataset):
\* construct the stage, run it, call self._progress_job().  Each path through
\* the body ends in a TypeError on this iteration, so the loop has no later
\* iteration.
RunFirstStage(w) ==
    /\ UNCHANGED << cleanVars, stageVars, columnVars, bandVars >>
    /\ gd_pc[w] = "loop"
    /\ LET Stage == stages[1]
       IN  IF ~CanConstruct(Stage)
           THEN /\ gd_err' = [gd_err EXCEPT ![w] = "TypeError"]
                /\ UNCHANGED << gd_df, gd_cache, gd_ran >>
           ELSE LET out == LoadDatasetRun(gd_df[w], gd_cache[w][1],
                                          [filename |-> gd_in[w].filename,
                                           contents |-> gd_in[w].contents])
                IN  /\ gd_df' = [gd_df EXCEPT ![w] = out.df]
                    /\ gd_cache' = [gd_cache EXCEPT ![w] = Some(out.cache)]
                    /\ gd_ran' = [gd_ran EXCEPT ![w] = Append(gd_ran[w], Stage)]
                    /\ gd_err' = [gd_err EXCEPT ![w] =
                                    IF ProgressJobCallable(RunProgressArgs(0))
                                    THEN "NotModelled" ELSE "TypeError"]
    /\ gd_pc' = [gd_pc EXCEPT ![w] = "raised"]
    /\ UNCHANGED << lookup_cache, gd_in, gd_meta, gd_out, geo_fetches >>

GetDataframeEndsSavingAlways(w) ==
    /\ UNCHANGED << cleanVars, stageVars, columnVars, bandVars >>
    /\ gd_pc[w] \in { "raised", "returned" }
    /\ gd_in[w].via = "get_dataframe"
    /\ LET saved == save_lookup_cache(gd_cache[w][1])
       IN  lookup_cache' = IF saved.raises = NULL THEN saved.written ELSE lookup_cache
    /\ gd_out' = [gd_out EXCEPT ![w] =
                    IF gd_pc[w] = "returned" THEN gd_df[w] ELSE gd_out[w]]
    /\ gd_pc' = [gd_pc EXCEPT ![w] = "idle"]
    /\ UNCHANGED << gd_in, gd_cache, gd_df, gd_meta, gd_ran, gd_err, geo_fetches >>

\* get_dataframe lines 31-35 once run() has ended: an exception propagates to
\* the caller; a returned pair is saved with save_lookup_cache and df
\* returned, unless the save raises, which propagates to the caller as well.
\* The worker is then free for the next job.
GetDataframeEnds(w) ==
    /\ UNCHANGED << cleanVars, stageVars, columnVars, bandVars >>
    /\ gd_pc[w] \in { "raised", "returned" }
    /\ gd_in[w].via = "get_dataframe"
    /\ IF gd_pc[w] = "returned"
       THEN LET saved == save_lookup_cache(gd_cache[w][1])
            IN  IF saved.raises = NULL
                THEN /\ lookup_cache' = saved.written
                     /\ gd_out' = [gd_out EXCEPT ![w] = gd_df[w]]
                     /\ UNCHANGED gd_err
                ELSE /\ gd_err' = [gd_err EXCEPT ![w] = saved.raises]
                     /\ UNCHANGED << lookup_cache, gd_out >>
       ELSE UNCHANGED << lookup_cache, gd_out, gd_err >>
    /\ gd_pc' = [gd_pc EXCEPT ![w] = "idle"]
    /\ UNCHANGED << gd_in, gd_cache, gd_df, gd_meta, gd_ran, geo_fetches >>

\* run() line 114, or an exception, back in the caller that constructed the
\* DataPreparation itself.
RunEnds(w) ==
    /\ UNCHANGED << cleanVars, stageVars, columnVars, bandVars >>
    /\ gd_pc[w] \in { "raised", "returned" }
    /\ gd_in[w].via = "DataPreparation"
    /\ gd_out' = [gd_out EXCEPT ![w] =
                    IF gd_pc[w] = "returned" THEN gd_df[w] ELSE gd_out[w]]
    /\ gd_pc' = [gd_pc EXCEPT ![w] = "idle"]
    /\ UNCHANGED << lookup_cache, gd_in, gd_cache, gd_df, gd_meta, gd_ran, gd_err,
                    geo_fetches >>

RunNext ==
    \E w \in Workers :
        \/ GetDataframe(w)
        \/ NewDataPreparation(w)
        \/ RunEnds(w)
        \/ RunSetup(w)
        \/ RunFirstStage(w)
        \/ GetDataframeEnds(w)

SpecRun == RunInit /\ [][RunNext]_vars

\* -------------------------------------------------------------- SpecClean

\* A dataset as CheckColumnsExist returns it; at most one of its rows has
\* its Award Date in another form than the ISO string.
CleanInit ==
    /\ RunIdle
    /\ StagesIdle
    /\ ColumnsIdle
    /\ BandsIdle
    /\ \E d \in IsoDatedDatasets :
          \E i \in DOMAIN d.rows, x \in AwardDateStrings :
             cl_raw = Some(WithAwardDate(d, i, x))
    /\ cl_hist = <<>>
    /\ cl_err = NULL

cl_df == cl_hist[Len(cl_hist)]

\* CheckColumnTypes(df, cache, job).run()
CheckColumnTypesStage ==
    /\ UNCHANGED << runVars, stageVars, columnVars, bandVars >>
    /\ cl_hist = <<>> /\ cl_err = NULL
    /\ LET out == CheckColumnTypesRun(cl_raw[1])
       IN  IF out.raises # NULL
           THEN cl_err' = out.raises /\ UNCHANGED cl_hist
           ELSE cl_hist' = << out.df >> /\ UNCHANGED cl_err
    /\ UNCHANGED cl_raw

\* AddExtraColumns(df, cache, job).run()
AddExtraColumnsStage ==
    /\ UNCHANGED << runVars, stageVars, columnVars, bandVars >>
    /\ Len(cl_hist) = 1
    /\ cl_hist' = Append(cl_hist, AddExtraColumnsRun(cl_df))
    /\ UNCHANGED << cl_raw, cl_err >>

\* CleanRecipientIdentifiers(df, cache, job).run(), on the dataset the
\* previous stage (or its own previous run) returned.
CleanRecipientIdentifiersStage ==
    /\ UNCHANGED << runVars, stageVars, columnVars, bandVars >>
    /\ Len(cl_hist) >= 2
    /\ Len(cl_hist) < 2 + MaxCleanRuns
    /\ cl_hist' = Append(cl_hist, CleanRecipientIdentifiersRun(cl_df))
    /\ UNCHANGED << cl_raw, cl_err >>

CleanNext ==
    \/ CheckColumnTypesStage
    \/ AddExtraColumnsStage
    \/ CleanRecipientIdentifiersStage

SpecClean == CleanInit /\ [][CleanNext]_vars

\* ------------------------------------------------------------ SpecColumns

\* The column names of the model: the five required names, three spellings
\* that differ from a required name in case or spaces only, a name that
\* differs by a letter, and an unrelated name.
ColumnNames ==
    << "Amount Awarded", "Funding Org:0:Name",
       "Award Date", "Recipient Org:0:Name",
       "Recipient Org:0:Identifier", "amount awarded",
       "AwardDate", "FUNDING ORG:0:NAME",
       "Recipient Org:0:Identifiers", "Title" >>

\* A column name as the sequence of its characters.
ColumnChars ==
    "Amount Awarded" :>
        << "A", "m", "o", "u", "n", "t", " ", "A", "w", "a", "r", "d",
           "e", "d" >> @@
    "Funding Org:0:Name" :>
        << "F", "u", "n", "d", "i", "n", "g", " ", "O", "r", "g", ":",
           "0", ":", "N", "a", "m", "e" >> @@
    "Award Date" :>
        << "A", "w", "a", "r", "d", " ", "D", "a", "t", "e" >> @@
    "Recipient Org:0:Name" :>
        << "R", "e", "c", "i", "p", "i", "e", "n", "t", " ", "O", "r",
           "g", ":", "0", ":", "N", "a", "m", "e" >> @@
    "Recipient Org:0:Identifier" :>
        << "R", "e", "c", "i", "p", "i", "e", "n", "t", " ", "O", "r",
           "g", ":", "0", ":", "I", "d", "e", "n", "t", "i", "f", "i",
           "e", "r" >> @@
    "amount awarded" :>
        << "a", "m", "o", "u", "n", "t", " ", "a", "w", "a", "r", "d",
           "e", "d" >> @@
    "AwardDate" :>
        << "A", "w", "a", "r", "d", "D", "a", "t", "e" >> @@
    "FUNDING ORG:0:NAME" :>
        << "F", "U", "N", "D", "I", "N", "G", " ", "O", "R", "G", ":",
           "0", ":", "N", "A", "M", "E" >> @@
    "Recipient Org:0:Identifiers" :>
        << "R", "e", "c", "i", "p", "i", "e", "n", "t", " ", "O", "r",
           "g", ":", "0", ":", "I", "d", "e", "n", "t", "i", "f", "i",
           "e", "r", "s" >> @@
    "Title" :>
        << "T", "i", "t", "l", "e" >>

\* str.lower() on one character.
LowerCase ==
    "A" :> "a" @@ "B" :> "b" @@ "C" :> "c" @@ "D" :> "d" @@ "E" :> "e" @@
    "F" :> "f" @@ "G" :> "g" @@ "H" :> "h" @@ "I" :> "i" @@ "J" :> "j" @@
    "K" :> "k" @@ "L" :> "l" @@ "M" :> "m" @@ "N" :> "n" @@ "O" :> "o" @@
    "P" :> "p" @@ "Q" :> "q" @@ "R" :> "r" @@ "S" :> "s" @@ "T" :> "t" @@
    "U" :> "u" @@ "V" :> "v" @@ "W" :> "w" @@ "X" :> "x" @@ "Y" :> "y" @@
    "Z" :> "z"

Lower(ch) == IF ch \in DOMAIN LowerCase THEN LowerCase[ch] ELSE ch

\* c.replace(" ", "").lower(), on the characters of c.
Normalise(chars) ==
    LET IsNoSpace(ch) == ch # " "
        kept == SelectSeq(chars, IsNoSpace)
    IN  [i \in DOMAIN kept |-> Lower(kept[i])]

\* CheckColumnNames.columns_to_check, in list order.
columns_to_check_list ==
    << "Amount Awarded", "Funding Org:0:Name", "Award Date",
       "Recipient Org:0:Name", COL_IDENTIFIER >>

\* The entry of `renames` for column c: the last w of columns_to_check with
\* the same normal form and another spelling, or c itself when there is none.
RenameOf(c) ==
    LET IsRename(w) == Normalise(ColumnChars[c]) = Normalise(ColumnChars[w]) /\ c # w
        ws == SelectSeq(columns_to_check_list, IsRename)
    IN  IF ws = <<>> THEN c ELSE ws[Len(ws)]

\* CheckColumnNames.run: self.df.rename(columns=renames).  A dataset is here
\* its column index, df.columns in order, and its rows, which the stages
\* carry along.
CheckColumnNamesRun(d, c) ==
    [df |-> [d EXCEPT !.columns = [i \in DOMAIN d.columns |-> RenameOf(d.columns[i])]],
     cache |-> c]

\* ", ".join(self.df.columns)
RECURSIVE JoinComma(_)
JoinComma(x) ==
    IF Len(x) = 0 THEN ""
    ELSE IF Len(x) = 1 THEN x[1]
    ELSE x[1] \o ", " \o JoinComma(Tail(x))

\* "Column {} not found in data. Columns: [{}]".format(c, ", ".join(columns))
ColumnNotFound(c, columns) ==
    "Column " \o c \o " not found in data. Columns: [" \o JoinComma(columns) \o "]"

\* c in self.df.columns
InColumns(c, columns) == \E i \in DOMAIN columns : columns[i] = c

CheckColumnsExistSkipsLast(d, c) ==
    LET IsMissing(w) == ~InColumns(w, d.columns)
        missing == SelectSeq(SubSeq(columns_to_check_list, 1, 4), IsMissing)
    IN  IF missing # <<>>
        THEN [raises |-> Some([type |-> "ValueError",
                               message |-> ColumnNotFound(missing[1], d.columns)]),
              df |-> d, cache |-> c]
        ELSE [raises |-> None, df |-> d, cache |-> c]

\* CheckColumnsExist.run: the first name of columns_to_check that is not a
\* column raises ValueError; otherwise (self.df, self.cache) is returned.
CheckColumnsExistRun(d, c) ==
    LET IsMissing(w) == ~InColumns(w, d.columns)
        missing == SelectSeq(columns_to_check_list, IsMissing)
    IN  IF missing # <<>>
        THEN [raises |-> Some([type |-> "ValueError",
                               message |-> ColumnNotFound(missing[1], d.columns)]),
              df |-> d, cache |-> c]
        ELSE [raises |-> None, df |-> d, cache |-> c]

\* A dataset as LoadDataset returns it, with some of the model's columns in
\* the order of ColumnNames, and the cache of the run.
ColumnsInit ==
    /\ RunIdle
    /\ CleanIdle
    /\ StagesIdle
    /\ BandsIdle
    /\ \E S \in SUBSET { ColumnNames[i] : i \in DOMAIN ColumnNames } :
          LET Chosen(n) == n \in S
          IN  ck_hist = << [df |-> [columns |-> SelectSeq(ColumnNames, Chosen),
                                    rows |-> << "row" >>],
                            cache |-> prepare_lookup_cache(None)] >>
    /\ ck_err = None

ck_last == ck_hist[Len(ck_hist)]

\* CheckColumnNames(df, cache, job).run()
CheckColumnNamesStage ==
    /\ UNCHANGED << runVars, cleanVars, stageVars, bandVars >>
    /\ Len(ck_hist) = 1
    /\ ck_hist' = Append(ck_hist, CheckColumnNamesRun(ck_last.df, ck_last.cache))
    /\ UNCHANGED ck_err

\* CheckColumnsExist(df, cache, job).run()
CheckColumnsExistStage ==
    /\ UNCHANGED << runVars, cleanVars, stageVars, bandVars >>
    /\ Len(ck_hist) = 2 /\ ck_err = None
    /\ LET out == CheckColumnsExistRun(ck_last.df, ck_last.cache)
       IN  IF out.raises # None
           THEN ck_err' = out.raises /\ UNCHANGED ck_hist
           ELSE /\ ck_hist' = Append(ck_hist, [df |-> out.df, cache |-> out.cache])
                /\ UNCHANGED ck_err

ColumnsNext ==
    \/ CheckColumnNamesStage
    \/ CheckColumnsExistStage

SpecColumns == ColumnsInit /\ [][ColumnsNext]_vars

\* -------------------------------------------------------------- SpecBands

COL_AMOUNT == "Amount Awarded"
COL_TITLE == "Grant Programme:0:Title"

\* Amounts are whole pence; the bin edges of the source are pounds.
Pence(pounds) == pounds * 100

\* AMOUNT_BINS without its last edge float("inf"), and AMOUNT_BIN_LABELS.
AMOUNT_BINS == << -1, 500, 1000, 2000, 5000, 10000, 100000, 1000000 >>
AMOUNT_BIN_LABELS ==
    << "Under £500", "£500 - £1,000", "£1,000 - £2,000", "£2k - £5k",
       "£5k - £10k", "£10k - £100k", "£100k - £1m", "Over £1m" >>

\* INCOME_BINS without its last edge float("inf"), and INCOME_BIN_LABELS.
INCOME_BINS == << -1, 10000, 100000, 1000000, 10000000 >>
INCOME_BIN_LABELS ==
    << "Under £10k", "£10k - £100k", "£100k - £1m", "£1m - £10m", "Over £10m" >>

\* A number of days as a time difference.
Days(n) == n * HoursPerDay

AgeBinsOfLongYears == [i \in 1 .. 7 |-> Days(<< -1, 1, 2, 5, 10, 25, 200 >>[i] * 366)]

\* AGE_BINS, pd.to_timedelta([x * 365 ...], unit="D"), and AGE_BIN_LABELS.
AGE_BINS == [i \in 1 .. 7 |-> Days(<< -1, 1, 2, 5, 10, 25, 200 >>[i] * 365)]
AGE_BIN_LABELS ==
    << "Under 1 year", "1-2 years", "2-5 years", "5-10 years", "10-25 years",
       "Over 25 years" >>

CutLeftClosed(x, edges, labels) ==
    LET In(i) == /\ edges[i] <= x
                 /\ (i = Len(edges) \/ x < edges[i + 1])
        found == { i \in 1 .. Len(labels) : In(i) }
    IN  IF found = {} THEN NULL ELSE labels[CHOOSE i \in found : TRUE]

\* pd.cut(x, bins, labels) with the default right=True: label i is given to
\* edges[i] < x <= edges[i+1], and a value in no bin gets NaN.  When there
\* are as many edges as labels the last bin has no upper edge (it was inf).
Cut(x, edges, labels) ==
    LET In(i) == /\ edges[i] < x
                 /\ (i = Len(edges) \/ x <= edges[i + 1])
        found == { i \in 1 .. Len(labels) : In(i) }
    IN  IF found = {} THEN NULL ELSE labels[CHOOSE i \in found : TRUE]

\* The three pd.cut assignments on one row, in the order of lines 466-471;
\* a NaN value gets no band.
BandAmountRow(r) ==
    [r EXCEPT !.amount_bands =
        Cut(r.amount, [i \in DOMAIN AMOUNT_BINS |-> Pence(AMOUNT_BINS[i])],
            AMOUNT_BIN_LABELS)]

BandIncomeRow(r) ==
    [r EXCEPT !.org_latest_income_bands =
        IF r.org_latest_income = None THEN NULL
        ELSE Cut(r.org_latest_income[1], INCOME_BINS, INCOME_BIN_LABELS)]

BandAgeRow(r) ==
    [r EXCEPT !.org_age_bands =
        IF r.org_age = None THEN NULL
        ELSE Cut(r.org_age[1], AGE_BINS, AGE_BIN_LABELS)]

BandRow(r) == BandAgeRow(BandIncomeRow(BandAmountRow(r)))

\* AddExtraFieldsExternal.run.  Each assignment changes self.df in place, so
\* when self.df["__org_latest_income"] or self.df["__org_age"] raises
\* KeyError (a dataset that was not joined with the organisation table) the
\* dataset keeps the band columns assigned before the failing line.
AddExtraFieldsExternalRun(d) ==
    LET amountDone ==
            [cols |-> d.cols \cup { "Amount Awarded:Bands" },
             rows |-> [i \in DOMAIN d.rows |-> BandAmountRow(d.rows[i])]]
        incomeDone ==
            [cols |-> amountDone.cols \cup { "__org_latest_income_bands" },
             rows |-> [i \in DOMAIN d.rows |-> BandIncomeRow(amountDone.rows[i])]]
        ageDone ==
            [cols |-> incomeDone.cols \cup { "__org_age_bands" },
             rows |-> [i \in DOMAIN d.rows |-> BandAgeRow(incomeDone.rows[i])]]
    IN  IF COL_ORG_INCOME \notin d.cols
        THEN [raises |-> "KeyError", df |-> amountDone]
        ELSE IF COL_ORG_AGE \notin d.cols
        THEN [raises |-> "KeyError", df |-> incomeDone]
        ELSE [raises |-> NULL,
              df |-> [cols |-> ageDone.cols \cup { COL_TITLE },
                      rows |-> [i \in DOMAIN d.rows |->
                                  IF COL_TITLE \in d.cols
                                  THEN ageDone.rows[i]
                                  ELSE [ageDone.rows[i] EXCEPT !.title = "All grants"]]]]

\* Values of the rows handed to the stage: amounts in pence around the first
\* edges, incomes, and registration dates 364, 365 and 366 days before the
\* day on which the merge read the clock.
BandAmounts == { Pence(-1), Pence(500) - 1, Pence(500), Pence(500) + 1, Pence(750) }
BandIncomes == { None, ToFloat("50000") }
BandDates == { NULL, "2010-01-01", "2018-03-31", "2018-04-01", "2018-04-02" }

BandInputRow(amount, income, date, title, now) ==
    [amount |-> amount, org_latest_income |-> income,
     org_date_registered |-> date, org_age |-> AgeOf(date, now), title |-> title,
     amount_bands |-> NULL, org_latest_income_bands |-> NULL,
     org_age_bands |-> NULL]

BandDatasets(now) ==
    UNION { { [cols |-> { COL_AMOUNT }
                          \cup (IF joined THEN ORG_COLUMNS ELSE {})
                          \cup (IF titled THEN { COL_TITLE } ELSE {}),
               rows |-> rows] :
              rows \in SeqsUpTo(
                  { BandInputRow(amount, income, date,
                                 IF titled THEN "Programme A" ELSE NULL, now) :
                      amount \in BandAmounts,
                      income \in (IF joined THEN BandIncomes ELSE { None }),
                      date \in (IF joined THEN BandDates ELSE { NULL }) },
                  MaxBandRows) } :
            joined \in BOOLEAN, titled \in BOOLEAN }

\* A dataset as MergeGeoData returns it.
BandsInit ==
    /\ RunIdle
    /\ CleanIdle
    /\ StagesIdle
    /\ ColumnsIdle
    /\ \E now \in Clock : \E d \in BandDatasets(now) : bd_hist = << d >>
    /\ bd_err = NULL

\* AddExtraFieldsExternal(df, cache, job).run()
AddExtraFieldsExternalStage ==
    /\ UNCHANGED << runVars, cleanVars, stageVars, columnVars >>
    /\ Len(bd_hist) = 1 /\ bd_err = NULL
    /\ LET out == AddExtraFieldsExternalRun(bd_hist[1])
       IN  IF out.raises # NULL
           THEN bd_err' = out.raises /\ bd_hist' = Append(bd_hist, out.df)
           ELSE bd_hist' = Append(bd_hist, out.df) /\ UNCHANGED bd_err

BandsNext == AddExtraFieldsExternalStage

SpecBands == BandsInit /\ [][BandsNext]_vars

\* ------------------------------------------------------------------- Spec

\* The namespace a lookup stage fills.
NamespaceOf(s) ==
    IF s = LookupCharityDetails THEN "charity"
    ELSE IF s = LookupCompanyDetails THEN "company"
    ELSE "postcode"

LookupStages == { LookupCharityDetails, LookupCompanyDetails, FetchPostcodes }

\* The stage after s in self.stages.
StageAfter(s) == stages[(CHOOSE i \in 1 .. Len(stages) : stages[i] = s) + 1]

\* The last stage the caller runs on a dataset.
FinalStage == MergeGeoData

\* stage.run() returned: the caller takes the pair and goes on.
Returns(s) ==
    /\ stage' = IF s = FinalStage THEN s ELSE StageAfter(s)
    /\ phase' = IF s = FinalStage THEN "done" ELSE "ready"

\* A first dataset, cleaned, and the cache prepare_lookup_cache builds when
\* the store is empty.
Init ==
    /\ RunIdle
    /\ CleanIdle
    /\ ColumnsIdle
    /\ BandsIdle
    /\ df \in GrantDatasets
    /\ cache = prepare_lookup_cache(None)
    /\ job \in BOOLEAN
    /\ progress = None
    /\ stage = LookupCharityDetails
    /\ phase = "ready"
    /\ err = NULL
    /\ sel = [ns \in Namespaces |-> <<>>]
    /\ done = [ns \in Namespaces |-> 0]
    /\ bad = {}
    /\ refetched = {}
    /\ last = NoFetch
    /\ df0 = df
    /\ cache0 = cache
    /\ dataset_no = 1

\* LookupCharityDetails(df, cache, job).run() up to its loop.
LookupCharityBegin ==
    /\ phase = "ready" /\ stage = LookupCharityDetails
    /\ sel' = [sel EXCEPT !["charity"] = CharityOrgids(df)]
    /\ df0' = df
    /\ phase' = "loop"
    /\ UNCHANGED << df, cache, job, progress, stage, err, done, bad, refetched,
                    last, cache0, dataset_no >>
    /\ UNCHANGED << runVars, cleanVars, columnVars, bandVars >>

\* LookupCompanyDetails(df, cache, job).run() up to its loop.
LookupCompanyBegin ==
    /\ phase = "ready" /\ stage = LookupCompanyDetails
    /\ sel' = [sel EXCEPT !["company"] = CompanyOrgids(df, cache)]
    /\ df0' = df
    /\ phase' = "loop"
    /\ UNCHANGED << df, cache, job, progress, stage, err, done, bad, refetched,
                    last, cache0, dataset_no >>
    /\ UNCHANGED << runVars, cleanVars, columnVars, bandVars >>

\* MergeCompanyAndCharityDetails(df, cache, job).run().
MergeStage ==
    /\ phase = "ready" /\ stage = MergeCompanyAndCharityDetails
    /\ df0' = df
    /\ \E strictKeys \in BOOLEAN, now \in Clock :
          LET out == MergeRun(df, cache, strictKeys, now)
          IN  IF out.raises # NULL
              THEN /\ err' = out.raises
                   /\ phase' = "raised"
                   /\ UNCHANGED << df, stage >>
              ELSE /\ df' = out.df
                   /\ Returns(MergeCompanyAndCharityDetails)
                   /\ UNCHANGED err
    /\ UNCHANGED << cache, job, progress, sel, done, bad, refetched, last,
                    cache0, dataset_no >>
    /\ UNCHANGED << runVars, cleanVars, columnVars, bandVars >>

\* FetchPostcodes(df, cache, job).run() up to its loop; self.df["__org_postcode"]
\* raises KeyError when the dataset has no such column.
FetchPostcodesBegin ==
    /\ phase = "ready" /\ stage = FetchPostcodes
    /\ df0' = df
    /\ IF COL_ORG \notin df.cols
       THEN /\ err' = "KeyError"
            /\ phase' = "raised"
            /\ UNCHANGED << df, sel >>
       ELSE /\ df' = FillPostcodes(df)
            /\ sel' = [sel EXCEPT !["postcode"] = Postcodes(FillPostcodes(df))]
            /\ phase' = "loop"
            /\ UNCHANGED err
    /\ UNCHANGED << cache, job, progress, stage, done, bad, refetched, last,
                    cache0, dataset_no >>
    /\ UNCHANGED << runVars, cleanVars, columnVars, bandVars >>

\* MergeGeoData(df, cache, job).run()
MergeGeoDataStage ==
    /\ phase = "ready" /\ stage = MergeGeoData
    /\ df0' = df
    /\ \E strictKeys \in BOOLEAN :
          LET out == MergeGeoDataRun(df, cache, strictKeys)
          IN  IF out.raises # NULL
              THEN /\ err' = out.raises
                   /\ phase' = "raised"
                   /\ UNCHANGED << df, stage >>
              ELSE /\ df' = out.df
                   /\ Returns(MergeGeoData)
                   /\ UNCHANGED err
    /\ UNCHANGED << cache, job, progress, sel, done, bad, refetched, last,
                    cache0, dataset_no >>
    /\ UNCHANGED << runVars, cleanVars, columnVars, bandVars >>

\* DataPreparationStage._progress_job(item_key, total_items).
StageProgressJob(hasJob, old, item_key, total_items) ==
    IF ~hasJob THEN old ELSE Some(<< item_key, total_items >>)

\* The loop header and self._progress_job(k+1, len(keys)) of a lookup stage.
LookupReport ==
    /\ phase = "loop" /\ stage \in LookupStages
    /\ LET ns == NamespaceOf(stage)
       IN  /\ done[ns] < Len(sel[ns])
           /\ progress' = StageProgressJob(job, progress, done[ns] + 1, Len(sel[ns]))
    /\ phase' = "fetch"
    /\ UNCHANGED << df, cache, job, stage, err, sel, done, bad, refetched, last,
                    df0, cache0, dataset_no >>
    /\ UNCHANGED << runVars, cleanVars, columnVars, bandVars >>

FetchOutcomes(ns, key) ==
    IF ns = "charity" THEN CharityOutcomes(key)
    ELSE IF ns = "company" THEN CompanyOutcomes(key)
    ELSE PostcodeOutcomes(key)

\* The try/except of a lookup loop for the current key.
LookupFetch ==
    /\ phase = "fetch" /\ stage \in LookupStages
    /\ LET ns == NamespaceOf(stage)
           key == sel[ns][done[ns] + 1]
       IN  \E outcome \in FetchOutcomes(ns, key) :
             LET res == LookupItem(ns, cache[ns], key, outcome)
             IN  /\ cache' = [cache EXCEPT ![ns] = res.dict]
                 /\ last' = [ns |-> ns, key |-> key, fetched |-> res.fetched,
                             query |-> IF res.fetched THEN RequestFor(ns, key) ELSE NoId,
                             raises |-> IF res.fetched THEN outcome.raises ELSE NULL]
                 /\ refetched' = IF res.fetched /\ HasKey(cache[ns], key)
                                 THEN refetched \cup { << ns, key >> }
                                 ELSE refetched
                 /\ bad' = IF res.fetched /\ outcome.raises = "JSONDecodeError"
                           THEN bad \cup { << ns, key >> }
                           ELSE bad
                 /\ IF res.escapes # NULL
                    THEN /\ err' = res.escapes
                         /\ phase' = "raised"
                         /\ UNCHANGED done
                    ELSE /\ done' = [done EXCEPT ![ns] = @ + 1]
                         /\ phase' = "loop"
                         /\ UNCHANGED err
    /\ UNCHANGED << df, job, progress, stage, sel, df0, cache0, dataset_no >>
    /\ UNCHANGED << runVars, cleanVars, columnVars, bandVars >>

\* The loop of a lookup stage is exhausted: return (self.df, self.cache).
LookupReturn ==
    /\ phase = "loop" /\ stage \in LookupStages
    /\ done[NamespaceOf(stage)] = Len(sel[NamespaceOf(stage)])
    /\ Returns(stage)
    /\ UNCHANGED << df, cache, job, progress, err, sel, done, bad, refetched,
                    last, df0, cache0, dataset_no >>
    /\ UNCHANGED << runVars, cleanVars, columnVars, bandVars >>

\* The caller takes up the next dataset with the same cache dict, after the
\* stages returned or one of them raised.
NewDataset ==
    /\ phase \in { "done", "raised" }
    /\ dataset_no < MaxDatasets
    /\ dataset_no' = dataset_no + 1
    /\ df' \in GrantDatasets
    /\ df0' = df'
    /\ cache0' = cache
    /\ progress' = None
    /\ stage' = LookupCharityDetails
    /\ phase' = "ready"
    /\ err' = NULL
    /\ sel' = [ns \in Namespaces |-> <<>>]
    /\ done' = [ns \in Namespaces |-> 0]
    /\ bad' = {}
    /\ last' = NoFetch
    /\ UNCHANGED << cache, job, refetched >>
    /\ UNCHANGED << runVars, cleanVars, columnVars, bandVars >>

Next ==
    \/ LookupCharityBegin
    \/ LookupCompanyBegin
    \/ MergeStage
    \/ FetchPostcodesBegin
    \/ MergeGeoDataStage
    \/ LookupReport
    \/ LookupFetch
    \/ LookupReturn
    \/ NewDataset

Spec == Init /\ [][Next]_vars

\* ==================================================================== claims

RunEnded(w) == gd_pc[w] \in { "raised", "returned" }

\* C1: every run in which no stage's own transformation fails runs each of
\* the twelve stages exactly once in list order and returns the last pair:
\* a run that has ended without a stage error has returned, and the stages
\* that ran are exactly the stage list.
C1_RunsEveryStageInOrder ==
    \A w \in Workers :
        (RunEnded(w) /\ gd_err[w] \notin StageErrors)
            => (gd_pc[w] = "returned" /\ gd_ran[w] = stages)

\* C2: with a job handle, the persisted meta['progress']['stage'] is the
\* number of stages completed so far (0 with the twelve names before the
\* first stage), and since it advances by one after each stage, a run that
\* ended without a stage error has persisted the index of the last stage.
C2_ProgressCountsCompletedStages ==
    \A w \in Workers :
        (gd_in[w].job /\ gd_pc[w] \in { "loop", "raised", "returned" })
            => /\ gd_meta[w] # None
               /\ gd_meta[w][1].stages = stages
               /\ gd_meta[w][1].progress.stage = Len(gd_ran[w])
               /\ (RunEnded(w) /\ gd_err[w] \notin StageErrors)
                     => gd_meta[w][1].progress.stage = Len(stages)

\* C7: end to end, the minimal CSV (one row, GB-CHC-123456, amount 750) run
\* against an empty cache completes, and its single output row carries the
\* amount band £500 - £1,000, the income band £10k - £100k and a non-null age.
C7_EndToEndMinimalCsv ==
    \A w \in Workers :
        ( /\ RunEnded(w)
          /\ gd_in[w].filename = "grants.csv"
          /\ gd_in[w].contents = "minimal-csv" )
            => /\ gd_pc[w] = "returned"
               /\ gd_df[w] # None
               /\ Len(gd_df[w][1].rows) = 1
               /\ gd_df[w][1].rows[1].amount_bands = "£500 - £1,000"
               /\ gd_df[w][1].rows[1].org_latest_income_bands = "£10k - £100k"
               /\ gd_df[w][1].rows[1].org_age # NULL

\* The stage s has returned for the current dataset.
IndexOfStage(s) == CHOOSE i \in 1 .. Len(stages) : stages[i] = s
HasReturned(s) ==
    /\ stage # NULL
    /\ \/ IndexOfStage(stage) > IndexOfStage(s)
       \/ phase = "done"

\* The stage s returned in the latest step of the caller.
JustReturned(s) ==
    IF s = FinalStage THEN phase = "done" /\ stage = s
    ELSE phase = "ready" /\ stage = StageAfter(s)

StageOf(ns) ==
    IF ns = "charity" THEN LookupCharityDetails
    ELSE IF ns = "company" THEN LookupCompanyDetails
    ELSE FetchPostcodes

\* C3: an exception other than a malformed response is not caught.  A fetch
\* that fails in transport ends its stage with that exception: the key is not
\* stored, the iteration is not completed or repeated, the keys after it are
\* not requested, and no later stage has run; the KeyError or ValueError of
\* a stage escapes the same way.
C3_OtherErrorsPropagate ==
    /\ (last.fetched /\ last.raises = "ConnectionError")
          => /\ phase = "raised" /\ err = "ConnectionError"
             /\ stage = StageOf(last.ns)
             /\ done[last.ns] < Len(sel[last.ns])
             /\ sel[last.ns][done[last.ns] + 1] = last.key
             /\ HasKey(cache[last.ns], last.key) => HasKey(cache0[last.ns], last.key)
    /\ phase = "raised"
          => /\ err \in { "ConnectionError", "KeyError", "ValueError" }
             /\ \A ns \in Namespaces :
                   IndexOfStage(StageOf(ns)) > IndexOfStage(stage)
                       => sel[ns] = <<>> /\ done[ns] = 0

\* C3 witness: the first of two keys failed in transport; the second was
\* never requested.
C3_Witness ==
    /\ phase = "raised" /\ err = "ConnectionError"
    /\ last.fetched /\ last.raises = "ConnectionError"
    /\ Len(sel[last.ns]) = 2
    /\ done[last.ns] = 0
    /\ ~HasKey(cache[last.ns], sel[last.ns][2])

\* C4 as stated: a lookup stage that met a malformed response returns
\* normally, the key absent from its namespace, every key processed, and the
\* dataset the one the stage was given.
C4_MalformedLeavesDatasetUnchanged ==
    \A ns \in Namespaces :
        (JustReturned(StageOf(ns)) /\ \E b \in bad : b[1] = ns)
            => /\ \A b \in bad :
                    (b[1] = ns /\ ~HasKey(cache0[ns], b[2])) => ~HasKey(cache[ns], b[2])
               /\ done[ns] = Len(sel[ns])
               /\ df = df0

\* C4 amended: a malformed response never ends the stage; the stage goes on
\* to every remaining key and returns normally, the key left absent from its
\* namespace, and the fetch loop leaves the dataset alone: LookupCharityDetails
\* and LookupCompanyDetails return the dataset they were given, FetchPostcodes
\* returns it with the postal-code column filled from __org_postcode, which
\* it does before any fetch.
C4_MalformedIsSwallowed ==
    /\ (last.fetched /\ last.raises = "JSONDecodeError" /\ stage = StageOf(last.ns))
          => phase # "raised" /\ err = NULL
    /\ \A ns \in Namespaces :
        (JustReturned(StageOf(ns)) /\ \E b \in bad : b[1] = ns)
            => /\ \A b \in bad :
                    (b[1] = ns /\ ~HasKey(cache0[ns], b[2])) => ~HasKey(cache[ns], b[2])
               /\ done[ns] = Len(sel[ns])
               /\ df = IF ns = "postcode" THEN FillPostcodes(df0) ELSE df0

\* C4 witness: FetchPostcodes returned after its first key came back
\* malformed and its second key was fetched and stored.
C4_Witness ==
    /\ JustReturned(FetchPostcodes)
    /\ Len(sel["postcode"]) = 2
    /\ << "postcode", sel["postcode"][1] >> \in bad
    /\ ~HasKey(cache["postcode"], sel["postcode"][1])
    /\ HasKey(cache["postcode"], sel["postcode"][2])

\* C5: a key that is already in its cache namespace when a lookup stage
\* processes it is never requested from the external service.
C5_NoFetchForCachedKey == refetched = {}

\* C6: with the cache empty when the dataset is taken up, once a lookup stage
\* has returned, every key it selected is a key of its namespace, except the
\* keys whose fetch was malformed.
C6_SelectedKeysAreCached ==
    \A ns \in Namespaces :
        ( /\ HasReturned(StageOf(ns))
          /\ \A m \in Namespaces : DOMAIN cache0[m] = {} )
            => \A i \in 1 .. Len(sel[ns]) :
                  \/ HasKey(cache[ns], sel[ns][i])
                  \/ << ns, sel[ns][i] >> \in bad

\* C6 witness: the first dataset went through every stage, each lookup stage
\* selected a key, and one charity fetch was malformed.
C6_Witness ==
    /\ phase = "done" /\ dataset_no = 1
    /\ \A ns \in Namespaces : sel[ns] # <<>>
    /\ \E b \in bad : b[1] = "charity" /\ ~HasKey(cache.charity, b[2])

\* C8: MergeCompanyAndCharityDetails returns the dataset left-joined with
\* the table of the charity entries that have an id and all company entries,
\* whichever of the two exist, and returns it unchanged only when neither
\* exists.
C8_MergeJoinsWhicheverExists ==
    ( \/ JustReturned(MergeCompanyAndCharityDetails)
      \/ (stage = MergeCompanyAndCharityDetails /\ phase = "raised") )
        => /\ phase # "raised"
           /\ IF OrgidRows(cache) = {} /\ CompanyRows(cache) = {}
                   THEN df = df0
                   ELSE \E now \in Clock :
                          df = JoinOrgTable(df0, OrgidRows(cache), CompanyRows(cache), now)

\* The charity lookup found k as a charity: its cache entry is a record with
\* an id.
FoundAsCharity(k) ==
    HasKey(cache.charity, k) /\ TruthyStr(Get(cache.charity[k], "id"))

\* LookupCompanyDetails has made its selection for the current dataset.
CompanySelected ==
    \/ HasReturned(LookupCompanyDetails)
    \/ stage = LookupCompanyDetails /\ phase \in { "loop", "fetch", "raised" }

\* C11: the identifiers LookupCompanyDetails selects are exactly the distinct
\* clean identifiers of the rows whose scheme is GB-COH and that the charity
\* lookup did not find as a charity (an identifier the charity service gave no
\* valid record for is selected); a request is made only for a selected
\* identifier that was not in cache['company'], and it carries the identifier
\* without its leading "GB-COH-" (the identifier is "GB-COH-" followed by what
\* was requested).
C11_CompanyLookupSet ==
    /\ CompanySelected
          => { sel.company[i] : i \in 1 .. Len(sel.company) }
               = { df0.rows[i].clean : i \in
                     { j \in 1 .. Len(df0.rows) :
                         /\ df0.rows[j].scheme = <<"GB", "COH">>
                         /\ ~FoundAsCharity(df0.rows[j].clean) } }
    /\ (last.ns = "company" /\ last.fetched)
          => /\ last.key = << "GB", "COH" >> \o last.query
             /\ ~HasKey(cache0.company, last.key)

\* The dataset a run of CleanRecipientIdentifiers started from / returned.
CleanRan(n) == Len(cl_hist) >= 2 + n
BeforeClean(n) == cl_hist[1 + n]
AfterClean(n) == cl_hist[2 + n]

\* C9: a second run of CleanRecipientIdentifiers on the dataset its first run
\* produced leaves the Clean and Scheme columns of every row as they were
\* after the first run.
C9_CleanIsIdempotent ==
    CleanRan(2) =>
        \A i \in 1 .. Len(AfterClean(2).rows) :
            /\ AfterClean(2).rows[i].clean = AfterClean(1).rows[i].clean
            /\ AfterClean(2).rows[i].scheme = AfterClean(1).rows[i].scheme

\* C10 as stated: after CleanRecipientIdentifiers every row whose company
\* number is present has the clean identifier GB-COH-<company number>,
\* whatever its scheme.
C10_CompanyNumberOverrides ==
    \A n \in 1 .. MaxCleanRuns + 1 :
        CleanRan(n) =>
            \A i \in 1 .. Len(AfterClean(n).rows) :
                LET r == AfterClean(n).rows[i]
                IN  (COL_COMPANY \in AfterClean(n).cols /\ r.company # NULL)
                        => r.clean = CompanyOrgId(r.company)

\* C10 amended: after CleanRecipientIdentifiers a row whose company number is
\* present keeps its original identifier as clean identifier when its scheme
\* on entry is one of the four FTC schemes; otherwise it has the clean
\* identifier GB-COH-<company number> when it had no clean identifier on entry
\* (the column was absent or the cell null), and keeps the clean identifier it
\* had on entry when it had one: the company number fills a missing clean
\* identifier and overrides nothing.
C10_CompanyNumberFillsMissing ==
    \A n \in 1 .. MaxCleanRuns + 1 :
        CleanRan(n) =>
            \A i \in 1 .. Len(AfterClean(n).rows) :
                LET r == AfterClean(n).rows[i]
                    b == BeforeClean(n).rows[i]
                IN  (COL_COMPANY \in AfterClean(n).cols /\ r.company # NULL)
                        => /\ b.scheme \in FTC_SCHEMES => r.clean = r.id
                           /\ (b.scheme \notin FTC_SCHEMES /\ b.clean = NoId)
                                 => r.clean = CompanyOrgId(r.company)
                           /\ (b.scheme \notin FTC_SCHEMES /\ b.clean # NoId)
                                 => r.clean = b.clean

\* C10 witness: after the first run, one row with a company number took
\* GB-COH-<company number> and another with a company number kept its
\* original FTC identifier.
C10_Witness ==
    /\ CleanRan(1)
    /\ \E i, j \in 1 .. Len(AfterClean(1).rows) :
          /\ AfterClean(1).rows[i].company # NULL
          /\ AfterClean(1).rows[i].clean = CompanyOrgId(AfterClean(1).rows[i].company)
          /\ BeforeClean(1).rows[i].scheme \notin FTC_SCHEMES
          /\ AfterClean(1).rows[j].company # NULL
          /\ BeforeClean(1).rows[j].scheme \in FTC_SCHEMES
          /\ AfterClean(1).rows[j].clean = AfterClean(1).rows[j].id

\* The pair the column stages returned.
AfterNames == ck_hist[2]
MissingColumns ==
    { w \in columns_to_check : ~InColumns(w, AfterNames.df.columns) }
ColumnsChecked == Len(ck_hist) = 3 \/ ck_err # None

\* C12: for a dataset that lacks a required column after CheckColumnNames,
\* CheckColumnsExist raises a ValueError whose message names a missing column
\* and lists every column of the dataset; with the five columns present it
\* returns the dataset and the cache it was given.
C12_MissingColumnIsReported ==
    ColumnsChecked =>
        IF MissingColumns # {}
        THEN /\ Len(ck_hist) = 2
             /\ ck_err # None
             /\ ck_err[1].type = "ValueError"
             /\ \E w \in MissingColumns :
                   ck_err[1].message =
                       "Column " \o w \o " not found in data. Columns: ["
                           \o JoinComma(AfterNames.df.columns) \o "]"
        ELSE /\ ck_err = None
             /\ ck_hist[3] = AfterNames

\* C12 witness: after a misspelt column was renamed, two required columns
\* are still missing and CheckColumnsExist raised.
C12_Witness ==
    /\ ck_err # None
    /\ Len(ck_hist) = 2
    /\ ck_hist[1].df.columns # AfterNames.df.columns
    /\ Cardinality(MissingColumns) = 2
    /\ COL_IDENTIFIER \in MissingColumns
    /\ Len(AfterNames.df.columns) >= 3

\* The dataset AddExtraColumns returned.
ExtraColumnsAdded == Len(cl_hist) >= 2
AfterExtraColumns == cl_hist[2]

\* The scheme the rule gives for an identifier of the row: 360G exactly for
\* the identifiers with the prefix, the first two segments for the others.
SchemeFollowsIffRule(scheme, x) ==
    /\ (JoinDash(scheme) = "360G") <=> (Len(x) >= 2 /\ x[1] = "360G")
    /\ ~(Len(x) >= 2 /\ x[1] = "360G")
          => JoinDash(scheme) = JoinDash(SubSeq(x, 1, IF Len(x) < 2 THEN Len(x) ELSE 2))

\* C13 as stated: the scheme AddExtraColumns computes from the identifier,
\* and the scheme CleanRecipientIdentifiers recomputes from a string clean
\* identifier, is "360G" if and only if the identifier starts with "360G-",
\* and otherwise the first two '-'-delimited segments joined by '-'.
C13_Scheme360GIffPrefix ==
    /\ ExtraColumnsAdded
          => \A i \in 1 .. Len(AfterExtraColumns.rows) :
                SchemeFollowsIffRule(AfterExtraColumns.rows[i].scheme,
                                     AfterExtraColumns.rows[i].id)
    /\ \A n \in 1 .. MaxCleanRuns + 1 :
          CleanRan(n)
            => \A i \in 1 .. Len(AfterClean(n).rows) :
                  AfterClean(n).rows[i].clean # NoId
                    => SchemeFollowsIffRule(AfterClean(n).rows[i].scheme,
                                            AfterClean(n).rows[i].clean)

SchemeFollowsRule(scheme, x) ==
    JoinDash(scheme) =
        IF Len(x) >= 2 /\ x[1] = "360G"
        THEN "360G"
        ELSE JoinDash(SubSeq(x, 1, IF Len(x) < 2 THEN Len(x) ELSE 2))

\* C13 amended: the scheme is "360G" if the identifier starts with "360G-",
\* and otherwise the first two '-'-delimited segments joined by '-' (the
\* whole identifier when it has no '-'), so that the identifier "360G", which
\* does not start with "360G-", has the scheme "360G" as well.
C13_SchemeRule ==
    /\ ExtraColumnsAdded
          => \A i \in 1 .. Len(AfterExtraColumns.rows) :
                SchemeFollowsRule(AfterExtraColumns.rows[i].scheme,
                                  AfterExtraColumns.rows[i].id)
    /\ \A n \in 1 .. MaxCleanRuns + 1 :
          CleanRan(n)
            => \A i \in 1 .. Len(AfterClean(n).rows) :
                  AfterClean(n).rows[i].clean # NoId
                    => SchemeFollowsRule(AfterClean(n).rows[i].scheme,
                                         AfterClean(n).rows[i].clean)

\* C13 witness: AddExtraColumns gave the scheme 360G to a row whose
\* identifier starts with "360G-" and to a row whose identifier is "360G",
\* and CleanRecipientIdentifiers recomputed a scheme from a clean identifier.
C13_Witness ==
    /\ CleanRan(1)
    /\ \E i, j \in 1 .. Len(AfterExtraColumns.rows) :
          /\ AfterExtraColumns.rows[i].id = <<"360G", "x">>
          /\ AfterExtraColumns.rows[i].scheme = <<"360G">>
          /\ AfterExtraColumns.rows[j].id = <<"360G">>
          /\ AfterExtraColumns.rows[j].scheme = <<"360G">>
          /\ AfterClean(1).rows[j].clean = <<"GB", "COH", "8">>
          /\ AfterClean(1).rows[j].scheme = <<"GB", "COH">>

\* The dataset AddExtraFieldsExternal returned.
BandsAdded == Len(bd_hist) = 2 /\ bd_err = NULL
Banded == bd_hist[2]

\* C14 as stated: an award of exactly 500 has the amount band
\* "£500 - £1,000", an award of 499.99 the band "Under £500", and an award
\* of -1 no band.
C14_FiveHundredInSecondBand ==
    BandsAdded =>
        \A i \in 1 .. Len(Banded.rows) :
            /\ Banded.rows[i].amount = 50000
                  => Banded.rows[i].amount_bands = "£500 - £1,000"
            /\ Banded.rows[i].amount = 49999
                  => Banded.rows[i].amount_bands = "Under £500"
            /\ Banded.rows[i].amount = -100
                  => Banded.rows[i].amount_bands = NULL

\* C14 amended: the amount bands are closed on the right: an award of
\* exactly 500 has the band "Under £500", as has 499.99; 500.01 and 750 have
\* the band "£500 - £1,000"; an award of -1 has no band.
C14_AmountBandsClosedOnRight ==
    BandsAdded =>
        \A i \in 1 .. Len(Banded.rows) :
            /\ Banded.rows[i].amount \in { 49999, 50000 }
                  => Banded.rows[i].amount_bands = "Under £500"
            /\ Banded.rows[i].amount \in { 50001, 75000 }
                  => Banded.rows[i].amount_bands = "£500 - £1,000"
            /\ Banded.rows[i].amount = -100
                  => Banded.rows[i].amount_bands = NULL

\* C14 witness: an award of exactly 500 was given the band "Under £500".
C14_Witness ==
    /\ BandsAdded
    /\ \E i \in 1 .. Len(Banded.rows) :
          /\ Banded.rows[i].amount = 50000
          /\ Banded.rows[i].amount_bands = "Under £500"

\* C15 as stated: an organisation whose age is exactly 365 days has the age
\* band "1-2 years", not "Under 1 year".
C15_Age365InSecondBand ==
    BandsAdded =>
        \A i \in 1 .. Len(Banded.rows) :
            Banded.rows[i].org_age = Some(Days(365))
                => Banded.rows[i].org_age_bands = "1-2 years"

\* C15 amended: the age bands are closed on the right: an age from 0 up to
\* and including exactly 365 days has the band "Under 1 year"; an age above
\* 365 days, up to and including 730 days, has the band "1-2 years" (so has
\* an organisation registered 365 days before the day of the merge when the
\* clock was read after midnight); an organisation with no registration date
\* has no band.
C15_AgeBandsClosedOnRight ==
    BandsAdded =>
        \A i \in 1 .. Len(Banded.rows) :
            LET age == Banded.rows[i].org_age
            IN  /\ (age # None /\ 0 <= age[1] /\ age[1] <= Days(365))
                      => Banded.rows[i].org_age_bands = "Under 1 year"
                /\ (age # None /\ Days(365) < age[1] /\ age[1] <= Days(730))
                      => Banded.rows[i].org_age_bands = "1-2 years"
                /\ age = None
                      => Banded.rows[i].org_age_bands = NULL

\* C15 witness: an organisation registered 365 days before the day of the
\* merge, with the clock read at midnight, was given the band "Under 1 year".
C15_Witness ==
    /\ BandsAdded
    /\ \E i \in 1 .. Len(Banded.rows) :
          /\ Banded.rows[i].org_date_registered = "2018-04-01"
          /\ Banded.rows[i].org_age = Some(Days(365))
          /\ Banded.rows[i].org_age_bands = "Under 1 year"

\* C16: a pipeline constructed with an already-loaded dataset and without
\* contents or without a filename runs LoadDataset as the identity: once the
\* run has ended, LoadDataset has run, and the dataset handed on is the dataset
\* the pipeline was constructed with.
C16_LoadDatasetIsIdentity ==
    \A w \in Workers :
        ( /\ gd_in[w].df # None
          /\ gd_in[w].contents = NULL \/ gd_in[w].filename = NULL
          /\ RunEnded(w) )
            => /\ Len(gd_ran[w]) >= 1
               /\ gd_ran[w][1] = LoadDataset
               /\ gd_err[w] # "TypeError"
               /\ gd_df[w] = gd_in[w].df

\* C17: in a run without a job handle no progress-reporting step writes or
\* raises: job.meta is never written, the per-stage advance of the run loop
\* can be called, and the run is not ended by the TypeError of a call.
C17_NoJobProgressIsNoOp ==
    \A w \in Workers :
        (~gd_in[w].job /\ gd_pc[w] \in { "loop", "raised", "returned" })
            => /\ gd_meta[w] = None
               /\ ProgressJobCallable(RunProgressArgs(Len(gd_ran[w])))
               /\ gd_err[w] # "TypeError"

\* The worker has been through a call of get_dataframe that ended with no
\* stage error.
Finished(w) ==
    /\ gd_pc[w] = "idle"
    /\ gd_in[w].via = "get_dataframe"
    /\ gd_err[w] \notin StageErrors

\* C18: once two runs of get_dataframe on the same store have both finished,
\* the stored cache is the cache one of them saved (the one that saved last).
C18_LastWriterWins ==
    (\A w \in Workers : Finished(w))
        => /\ lookup_cache # None
           /\ \E w \in Workers : lookup_cache = save_lookup_cache(gd_cache[w][1]).written

\* Only worker 1 has made calls, so its runs came one after the other.
OnlyFirstWorkerRan ==
    \A w \in Workers \ { 1 } : gd_in[w].via = NULL

\* C19: across the runs one worker makes one after the other against the same
\* store, fetch_geocodes is called at most once.
C19_GeocodesFetchedOnce ==
    OnlyFirstWorkerRan => geo_fetches <= 1

\* The bodies the external service of a namespace can return for a key.
RawResponses(ns, k) ==
    { o.body : o \in { o \in FetchOutcomes(ns, k) : o.raises = NULL } }

\* C20: in every cache state, the value under each key of the charity,
\* company and postcode namespaces is a raw response of the external service
\* for that key; processing a key that is already cached does not replace
\* its value with anything else.
C20_CachedValuesAreRawResponses ==
    \A ns \in Namespaces :
        \A k \in DOMAIN cache[ns] : cache[ns][k] \in RawResponses(ns, k)

\* ------------------------------------------------------------------ C21

\* The index values of the table pd.concat([orgid_df, companies_df]) that
\* MergeCompanyAndCharityDetails joins to the dataset, and the number of the
\* table's rows that carry the index value k.
OrgTableKeys(c) ==
    { t.orgid : t \in OrgidRows(c) } \cup { t.orgid : t \in CompanyRows(c) }

OrgTableRowsFor(c, k) ==
    (IF \E t \in OrgidRows(c) : t.orgid = k THEN 1 ELSE 0)
        + (IF \E t \in CompanyRows(c) : t.orgid = k THEN 1 ELSE 0)

\* MergeCompanyAndCharityDetails has just returned having joined the table.
MergeJoined ==
    /\ JustReturned(MergeCompanyAndCharityDetails)
    /\ COL_ORG \in df.cols

\* C21: in every reachable cache state the organisation table that
\* MergeCompanyAndCharityDetails builds has at most one row per organisation
\* identifier, and so the dataset the stage returns after the left join has
\* as many rows as the dataset it was given.
C21_OneRowPerOrganisation ==
    /\ \A k \in OrgTableKeys(cache) : OrgTableRowsFor(cache, k) <= 1
    /\ MergeJoined => Len(df.rows) = Len(df0.rows)

\* ------------------------------------------------------------------ C22

\* A lookup stage has just called self._progress_job(k+1, len(keys)).
ItemReported == stage \in LookupStages /\ phase = "fetch"

\* The number of the stage's keys whose try/except has been gone through:
\* fetched, served from the cache, or skipped as malformed.
ItemsProcessed == done[NamespaceOf(stage)]

\* C22: in a lookup stage with a job handle, when the per-item progress
\* (d, n) is reported, n is the number of distinct keys the stage processes,
\* 1 <= d <= n, and exactly d of the keys have already been processed.
C22_ReportedAfterEachItem ==
    (job /\ ItemReported) =>
        /\ progress # None
        /\ progress[1][2] = Len(sel[NamespaceOf(stage)])
        /\ 1 <= progress[1][1] /\ progress[1][1] <= progress[1][2]
        /\ ItemsProcessed = progress[1][1]

\* ------------------------------------------------------------------ C23

\* The dataset in hand has no record with an identifier in the charity or
\* company schemes and no company or charity number, and the stages started
\* on it with empty charity and company namespaces.
NoOrganisationInput ==
    /\ cache0.charity = EmptyMap /\ cache0.company = EmptyMap
    /\ \A i \in 1 .. Len(df.rows) :
          /\ df.rows[i].scheme \notin FTC_SCHEMES \cup { << "GB", "COH" >> }
          /\ df.rows[i].company = NULL /\ df.rows[i].charity = NULL

\* C23: for a valid dataset with no charity or company identifiers, run
\* against empty charity and company namespaces, the merge passes the dataset
\* through and no later stage fails for lack of the __org_ columns: no stage
\* raises KeyError, and the stages end with the rows they were given.
C23_NoOrganisationRunCompletes ==
    NoOrganisationInput =>
        /\ ~(phase = "raised" /\ err = "KeyError")
        /\ phase = "done" => Len(df.rows) = Len(df0.rows)

\* ------------------------------------------------------------------ C24

\* The step of worker w in which its get_dataframe call ends with the
\* exception of an aborted run.
AbortedCallEnds(w) ==
    /\ gd_in[w].via = "get_dataframe"
    /\ gd_pc[w] = "raised"
    /\ gd_pc'[w] = "idle"

\* The step of worker w in which its get_dataframe call returns a dataset.
ReturnedCallEnds(w) ==
    /\ gd_in[w].via = "get_dataframe"
    /\ gd_pc[w] = "returned"
    /\ gd_pc'[w] = "idle"

\* C24: a get_dataframe call whose run aborts leaves the blob stored under
\* "lookup_cache" as it was when the call started and returns no dataset:
\* the step that ends an aborted call changes nothing in the store and hands
\* nothing to the caller, and no step but the end of a call that returned
\* writes the store, so nothing the aborted run fetched is persisted.
C24_AbortedRunSavesNothing ==
    [][ /\ \A w \in Workers :
              AbortedCallEnds(w) => /\ lookup_cache' = lookup_cache
                                    /\ gd_out'[w] = None
        /\ lookup_cache' # lookup_cache => \E w \in Workers : ReturnedCallEnds(w)
      ]_vars

\* A get_dataframe call has ended after its run aborted: the caller has no
\* dataset, and the geocode table the call fetched into its cache is not in
\* the store.
C24_Witness ==
    \E w \in Workers :
        /\ gd_in[w].via = "get_dataframe"
        /\ gd_pc[w] = "idle"
        /\ gd_err[w] # NULL
        /\ gd_out[w] = None
        /\ gd_cache[w] # None
        /\ gd_cache[w][1].geocodes # EmptyMap
        /\ lookup_cache = None
====
